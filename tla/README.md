# Verification of S100Services

TLA+ models of the parts of S100Services where order, failure and concurrency
decide whether the data stays right, TLC runs on small instances, and TLAPS
proofs for every instance. Paths below are relative to the repository;
`PCA` stands for `src/ProductCatalogueAPI`, `DCA` for `src/DataCatalogueAPI`.

## 1. The system

S100Services produces nautical products. The core is the **Product Catalogue**
backend: an API process and one Worker process over a SQL Server System
database, an ArcGIS geodatabase (the S-128 catalogue and the feature archive),
Hangfire as job queue, and IC-ENC, an outside body that accepts or rejects what
is sent to it by FTPS. Around it are a **Data Catalogue** backend (event
sourced, in memory, with its geometry in a geodatabase) and three web clients.

An **ENC package** is the unit of the core workflow: an S-101 product and the
S-57 product mapped to it, built from one snapshot of the source, sent
separately, accepted separately, published together.

```
 source edits -> change scan -> package (YAML) -> export S-101, export S-57
                   ^   |                              |
     replay row ---+   +-- discard & rebuild          v
                                         Ready -> send -> InTransit
   operator: hold, pause, discard,                     |  notice
             reconcile, acknowledge                    v
                                   Accepted x 2 -> S-128 edit session -> SQL
```

| Component | State it keeps | Operations | Properties that make it right |
| --- | --- | --- | --- |
| DPC enqueue gate (`PCA/Jobs/CoalescingDpcFilter.cs`) | a hash: job id or reservation, and its time | OnCreating, OnCreated, OnPerformed | one scan queued or running; the gate is not taken from its owner; it opens again |
| Product export tracks (`PCA/Data/Repositories/ProductRepository.cs`, `ProductCandidateRecovery.cs`, `ProductCandidateDeliveryGuard.cs`) | state, previous state, candidate and published version, revisions, holds | begin export, add revision, set state, complete, discard, fail interrupted, hold | a candidate is what was built; nothing moves it while it is in transit |
| ENC package store (`EncPackageRepository.cs`) | package row, replay rows | create, discard, queue members, replay | both members change together; edits are never lost |
| Change scan (`PCA/Jobs/EncPackageDetectionService.cs`) | watermark, import cutoff; local variables over many awaits | run, create on request | every edit is in a package, kept by a replay row, or still ahead of the watermark, over deaths and failures of any step |
| Interrupted export recovery (`EncPackageInterruptedExportRecovery.cs`) | none | try recover | a build a dead Worker left behind ends |
| Export operation (`PCA/Services/Operations/ExportOperationService.cs`) | none | export, discard | a package's members come from one snapshot |
| Delivery (`IcEncDeliveryRepository.cs`, `UploadSingularProductJob.cs`) | delivery rows | reserve, mark, reconcile | what IC-ENC may hold is what the track has |
| Acknowledgement (`EncPackageAcknowledgementRepository.cs`) | acknowledgement rows | record, pending, publication, complete | a decision goes to the revision it is about |
| Finalization (`FinalizeEncPackageJob.cs`, `ProductManagerGDB.PublishAcceptedEncPackageAsync`) | S-128 rows and attachment | finalize | S-128 and SQL agree, over a death between them |
| Operator actions (`UploadController.cs`, `EncPackageControlRepository.cs`, `DiscardEncPackageJob.cs`) | hold and pause rows | hold, release, pause, resume, discard | a hold or pause keeps its word |
| Product history (`PCA/Services/History`) | pending and final history events, two parameters of a job | execute, guard, record, reconcile | an export runs once; a verdict is true; every pending event ends |
| Workspace freshness (`src/ProductCatalogue/.../workspaceFreshnessMonitor.js`) | revisions, generations, recovery flags | prime, add, retain, check | a revision is acknowledged only for a payload that is as new |
| Review page (`.../review/core/reviewProductSession.js`, `initReviewPage.js`) | composition, records, payloads | edit, load, refresh | no Product with content is left unwatched; what is shown gets up to date |
| Data Catalogue event store (`DCA/Repositories/InMemoryEventStore.cs`) | streams, global log, checkpoint | append, read, subscribe | versions; one order for all; nothing is skipped |
| Data Catalogue packages and pipelines (`DCA/Services`, `DCA/Repositories`) | short ids, geometry rows, projections | create category, create package, replace geometry, assign, unassign, add workspace | short ids unique; rows and events agree; listings catch up and never go back |
| Data sources of the main map (`src/ProductCatalogue/.../features/dataSources`) | per source: requested, enabled, loading, generation, operation; layers; provider generations; the stored selection | startup, switch, refresh, targeted status read, reset | what is off stays off; map, filters and panel agree; no older status comes back; the storage has the user's choice |
| Status projections, dashboards, mail parsing, FTPS, SevenCs, export engines, geometry, web views | - | read, convert, render | left out, see section 8 |

**How they interact.** The API and the Worker share only the two stores and the
Product lock files. Everything long runs as a Hangfire job on the Worker, and
the Worker has exactly one Hangfire worker
(`PCA/Hosting/ProductCatalogueProcessRole.cs:50-56`,
`PCA/BackendRegistrations.cs:109`, `PCA/docs/arcgis-execution-isolation.md`):
scan, export, send, discard and finalization exclude one another. What the API
executes itself - hold, release, pause, resume, reconcile, acknowledge - runs
between any two steps of a job. A job takes Product locks (exclusive lock
files, tried once), the send job and the acknowledgement do not: they rely on
serializable SQL transactions. The Data Catalogue is one process: its requests
run concurrently, each kind of command through a semaphore of its own, and one
subscription projects the log into the listings that other requests read.

**What is hard here.** The Worker can die between any two commits; a SQL batch
without a transaction can stop after its first statement; S-128 and SQL cannot
share a transaction, and neither can the Data Catalogue's geodatabase and its
event store; states are read, awaited over and written again; checks and
effects lie in different transactions; a rebuilt candidate has the same version
as the one before; one watermark stands for all sources; a job may be run a
second time while the first run is not over; notices repeat, come late, or
concern something that was replaced. In the web client, a revision is read,
content is loaded and shown, and the revision is acknowledged, with awaits
between and a user who edits the composition meanwhile; loads of one data source
overtake one another. `PROJECT.json` lists these hazards at their lines.

## 2. Modules

| Module | Models |
| --- | --- |
| `CoalescingDpc` | the enqueue gate with any number of clients and jobs, and Hangfire's queue around it |
| `EncState` | the rows, the S-128 catalogue and the jobs' local state for one package source; the rules over one track (`CanDiscard`, `DeliveryBlocks`, ...); the Worker's lane and the Product locks; the Worker's death |
| `EncScan` | the change scan and the package on request, up to the created package |
| `EncExport` | building the two members, or one Product |
| `EncDelivery` | reserving, uploading, reconciling, acknowledging |
| `EncOperator` | discards, hold, release, pause, resume |
| `EncPublication` | finalization over S-128 and SQL |
| `PairPublication` | the abstract specification of publishing a pair |
| `EncPackage` | the composition of all of these, fairness, and the properties |
| `DpcScan` | the change scan over several sources and its windows: watermark, replay bounds, snapshot attempts, import cutoff |
| `ProductHistory` | the audit of one manual export: job, guard, receipt, event row, Product lock, two Workers, reconciliation |
| `CatalogueState` | the Data Catalogue's log, rows, identity service, projections and requests |
| `CataloguePackages` | creating categories and packages, replacing geometry |
| `CatalogueRouting` | assignments, workspaces, and the subscription |
| `Catalogue` | their composition and properties |
| `FreshnessMonitor` | the monitor of a workspace page: baselines, primes, additional primes, the check, recovery |
| `ReviewSession` | the Review page around it: composition, records and loads, refresh as the monitor's callback; the properties |
| `DataSources` | the Product sources of the main map: controller, refresh coordinators, layers, providers, stored selection |
| `MCEncPackage`, `MCCatalogue`, `MCReviewSession` | TLC instances (symmetry) |
| `CoalescingDpc_proofs`, `EncStores_proofs`, `EncPairs_proofs`, `DpcScan_proofs`, `ProductHistory_proofs`, `Catalogue_proofs`, `ReviewSession_proofs`, `DataSources_proofs` | theorems |

### State and code

A variable of `EncState` is a column or a table (`state`, `prev`, `cand`, `pub`
of `ProductExportTrack`; `rev` of `ProductRevision`; `delivery`; `hold`;
`paused`; `pkg` is the active `EncPackage` row, `replay` the `EncPackageReplay`
row), the S-128 catalogue (`s128`, `attached`), or the local variables that a
job keeps over an `await` (`pc`, `mode`, `base`, `turn`, `seen` of the scan and
the export; `upload` of the send job; `fin` of the finalizer; `holder` of a
hold request). A SQL transaction, or a statement that commits alone, is one
action; two commits are two actions with everything else possible in between
that the code allows in between. What a transaction does when it refuses is
part of the same action. The other modules follow the same rule.

Editions are numbers and updates are dropped: packages are always built as new
editions. Timestamps that choose among rows (`ORDER BY created_at_utc DESC`)
become the position in `rev`. A package is a number, so that a revision can say
which package's snapshot it was built from.

Abstractions that deserve a word:

- **The gate.** Hangfire's queue is in the model as far as the filter sees it. A
  job record that cannot be written empties the field (`CreateFails`); a job
  deleted in the dashboard is `Deleted` for the storage at once, and its body goes
  on until it notices (`Aborting`).
- **One source in `EncPackage`.** `Inspect`, `SnapshotIrrelevant`,
  `SnapshotTaken` and `RefreshDiscard` are the possible answers of the archive.
  `replay` says that a row exists, not its bound; that it disappears when a
  scan has inspected its bound is a choice of `ScanDone`. What that choice
  hides is the subject of `DpcScan`.
- **`DpcScan`** is the same scan seen from the archive. Time counts edits: the
  instant of an edit is its number, and a job's start is the number of the last
  edit before it. Two windows that lie between the same edits contain the same
  edits, so nothing is lost; the archive's clock is taken to agree with the
  server's, and the check that a start is not more than five minutes ahead is
  one of the reasons of `Stop`. Whether a window comes to a net difference, and
  whether the difference touches the exported selection, is a choice: `Quiet`,
  `Irrelevant` and `Cancel` are possible for every window. `settled` is a
  history variable. Tracks are reduced to `blocked` (a hold, a transfer or a
  candidate no package owns) and exports to `Build`. `FinalizePendingAsync` at
  the start of a scan is a `Publish` before `Begin`. A source can begin with a
  package that an older version of the program left unfinished and unmarked
  (`Legacy`): only these need `GetIncompleteSourceNamesAsync`, because the
  present version marks replay with the package.
- **`ProductHistory`** follows one operation on one Product. The Worker has one
  Hangfire worker, so a job can only run twice at once when a new Worker
  process starts before the old one is dead; that is a `Fault` of `Fetch`. The
  lock file excludes as long as its process lives. Reads and writes of SQL or
  of Hangfire's storage may fail, and a write may fail although it was made. The
  reconciliation's age limit is abstracted: every pending event may be looked
  at. `Api` is any other holder of the Product lock.
- **`Catalogue`.** Within one process a request's steps between two awaits are
  one action; the semaphores of the services are `GateFree`. The holder of a
  gate is the only writer of its streams, so loading and appending with the
  loaded version are one step. Streams are not stored: a stream is the events
  of its key in the log, because no caller truncates or deletes one. Rows are
  numbered in the order they are written.
- **One lane.** `LaneFree` is the guard of every job's first step. Short jobs
  (discards) are one action.
- **Tracks exist.** `GetOrCreateTrackAsync` and `EnsureMissingTracksAsync` give
  the initial rows. The states `Exported`, `Frozen`, `Published` and
  `Cancelled`, and packages with one discarded member, are not produced by this
  version of the code and are left out.
- **`TryCreatePendingAsync` failing** and an `Exporting` member in
  `RecoverIncompletePackageAsync` are unreachable under one lane; the first is
  checked as `CreateSucceeds`.
- **Notices** name their delivery; the lookup by version alone picks one, or
  refuses.
- **The Review page.** One step of a model is what the event loop runs between
  two awaits. A request under way is the revisions at the time it was sent; its
  answer is any revision from then on, for each Product on its own, because the
  server reads while others write. A payload is the oldest revision it was read
  from, and whether an error stands in the place of a part of it (`partial`). A
  load ends in one of three ways: whole (`Loaded`); in part, when the History or
  the validation files cannot be read and the loader returns the Product with
  their errors (`LoadedInPart`, event `"content"`); or not at all, when the
  loader rejects or cannot resolve the Product (`LoadFails`, event `"load"`).
  The first two replace what is shown and are accepted by a check's refresh, the
  third one is not. Generation and epoch numbers are only compared for equality with an
  earlier copy: `live` of a check, and the presence of a request or of an
  operation, stand for the comparison. A hidden document is one that starts no
  check. Package aliases are resolved before the model begins; a resolution
  that no longer holds is the argument of `Compose`.
- **The data sources.** An activation is a record in `operations` with the
  place where it waits: `load` (the request, which the backend reads at some
  time), `payload` and `layers` (the two steps after it). Whatever is between
  two awaits is one action. A source's `context` is its operation context:
  targeted reads belong to it, while a published status only moves the
  generation on. `provider` is the source's entry in the filter service and in
  the search index, which follow the same generations. A payload is the version
  that the backend had of each Product. `resetToDefaults` awaits after each
  source it switches off; these are turns of the microtask queue in which
  nothing but an activation of a source that is about to be switched off can
  go on, and the reset is one action up to the loads it starts. The cooldown of
  targeted reads is a request that is not made. The dataset compatibility that a
  refresh reads beside the statuses (`dataSourceRefreshCoordinator.js:28`) changes
  nothing that is modelled and is left out; `RefreshEnds` assumes that it settles
  too. `intent` is a history variable:
  what the user chose last.
- A job that Hangfire hands out again after a death is a new start: every job
  begins from what the stores say. (The gate and `ProductHistory` model this
  explicitly.)

## 3. Runs

Most specifications have a constant `Events` that says which optional events
may happen (for the two modules of the web client `Scenarios`, a set of such
sets, one of which is chosen at the start). Each run takes the events its question is about; what
the workflow itself does is always there.

| Run | Instance | Shows |
| --- | --- | --- |
| `dpc_gate_faulty` | 2 clients, 3 jobs, all faults, fair | `TypeOK`, `OwnerKeepsGate`, `GateReopens` |
| `package_operators` | hold, pause, failed snapshot, half-executed statement, Product exports, package on request; 2 deliveries | `TypeOK`, `InFlightKept`, `ReadyUnsubmitted`, `FailedSnapshotKept`, `NoOrphanSnapshot`, `PairFromOnePackage`, `PauseHoldsDelivery`, `CreateSucceeds` |
| `package_fair` | crash, fair; 2 deliveries | `StoresAgree`, `PublishedAsPair` (refinement of `PairPublication`), `AcceptedIsPublished`, `InterruptedEnds` |
| `dpc_scan` | 2 sources, one of them requested too; 2 edits; failed snapshots, discards, import cutoffs, one scan that ends early; fair | `EditsKept`, `ImportExcluded`, `ReplayEnds` |
| `history` | 2 Workers, 3 faults, 2 calls of operators, fair | `TypeOK`, `ExportedOnce`, `OutcomeTrue`, `SuccessTrue`, `EvidenceKept`, `PendingEnds` |
| `catalogue` | 2 requests, 2 packages, 1 pipeline; 4 events, 2 rows; all failures | `TypeOK`, `IndexKnows`, `ShortIdsUnique`, `ReferencesStored`, `NoSilentOrphan`, `ListingCatchesUp` |
| `review_page` | all failures, partial ones too, once with Products disabled and once with failed full primes; one of the two Products a package; fair | `TypeOK`, `BaselineShown`, `ObligationKept`, `EventuallyFresh` |
| `data_sources` | 1 source, 1 Product, one reset, 4 generations, 2 changes; once without events and once with both; fair | `TypeOK`, `DisplayAgrees`, `StoredIsIntent`, `OnlyIfWanted`, `NeverOlder`, `RefreshEnds` |
| `package_rejected`, `package_sending`, `dpc_scan_blocked`, `review_recovery` | | disagreements, section 6 |

**Bounds.** Two packages, so that one replaces another; two revisions per
track, so that a rebuilt candidate has the same version as a revision that is
already there; two deliveries - one of each member, or two of one, so that a member is
rejected or not delivered and sent again. A third one, which lets one member be
sent again while the other is under way, is in `package_rejected`; the
invariants of the other runs are proved for any number (section 4). Deaths of
the Worker are in `package_fair` and the two runs of disagreements.
`MaxPackage` and `MaxRevision` bound `MorePackages` and `MoreRevisions`, guards
of creating a package and of beginning an export; an export that cannot begin
for want of a revision fails as in the code, so the bound adds no behaviour of
its own. Delivery and request identifiers are symmetric in the runs that check
safety only.

`DpcScan` needs two sources because the watermark is shared: one is dealt with
while the other is blocked, fails or stops the scan. Two edits put one before a
bound and one after it, at the same source or at two, and a source can begin
with an unfinished package, which gives a window before the first edit.
`MaxStops` bounds the scans that end early, not the holds, failed snapshots or
protected packages that keep a source out; one is enough to leave the watermark
moved and the rows behind, since the next scan repeats everything else. The
theorems of section 4 hold for all of these numbers. `"block"` is not among the
events of `dpc_scan`, because with it `EditsKept` fails (`dpc_scan_blocked`).

`ProductHistory`: three faults let a Worker die, a second one take its job
early, and a write get lost; two calls let an operator requeue a job that a
call has just deleted, or the API hold the lock while a job begins. `Catalogue`:
four events are a category, a package and two events that race, or two
packages; a position that is handled twice needs no more. One pipeline and one
name make every assignment and every workspace compete.

The Review page has two Products: one that changes and one that is edited, or
both. Two revisions let a Product change while it is being loaded or refreshed;
three edits open a page, take a Product out and put it back while requests are
under way.

`DataSources`: four generations of a source are a load, one that supersedes it,
one that is superseded in turn, and what follows. Sources share the storage and
the ends of startup, refresh and reset; the deployment's registry makes one
source selectable, and so does the instance. `StoredIsIntent` speaks of the
scenario without events: with `"outage"` (a source does not load at startup)
and with `"hurry"` (a switch while a reset loads) it fails, as section 6 says.

No configuration of `EncPackage` switches the deadlock check off: a scan can
always start. The other specifications stop when their identifiers, edits,
calls or rows are used up, and a page can be left, so their runs are checked
without it.

**Fairness.** `FairSpec` of the gate: an enqueue that has begun goes on or its
process dies, workers poll, clocks advance, and the worker of one job does not
die every time. `FairSpec` of the package: a job that runs takes its next step
and an upload ends; the scheduler queues a scan every minute; the finalizer,
which every scan runs first and the second acceptance queues, gets the lane
some time. The Worker may die any number of times, but not each time at the
same step: the three steps of the finalizer and a scan's steps up to the end of
recovery have strong fairness. Nothing is assumed of operators, of IC-ENC or of
the archive.

`FairSpec` of `DpcScan`: a job that runs goes on (weak fairness), and a scan
begins again and again although other jobs take the Worker between (strong
fairness of `Begin(FALSE)`): Hangfire's queue is first in, first out, and the
recurring job queues a scan every minute. Nothing is assumed of edits, holds or
operators; a package that is protected while its window crosses the import
cutoff ends every scan, hence the premise of `ReplayEnds`. `FairSpec` of
`ProductHistory`: a Worker's code goes on; a job that waits is fetched and the
sweep comes, also when other jobs or the API hold the Worker or the lock most
of the time (strong fairness: the queue, and the recurring job of every 15
minutes); the API gives the lock back. Faults end because they are bounded:
`PendingEnds` says that an event ends once they do.

`FairSpec` of the Review page: promises settle, the timer starts a check when
none is under way (the 30 s interval), and a check or a load that is tried
again and again is answered some time, a load if only in part - a page that is
never answered cannot show anything new. Edits and changes end, because they are bounded.

`Spec` of `DataSources`: a request is answered or fails, and what waited goes on
(weak fairness per operation, and of the ends of startup, refresh and reset).
The code sets no deadline for these requests; it relies on the browser's.

**Mutants.** Beside a definition there can be a second form of it, marked
`Mutant of`, that has a plausible bug; the property named in `PROJECT.json`
fails when it takes the definition's place. They document what each property
watches: for instance `LaneUnguarded`, a second Hangfire worker, breaks
`InFlightKept` and `ReadyUnsubmitted`, which shows how much rests on the one
worker, and `ReleasedAlways`, a `finally` that always gives the short id back,
breaks `ShortIdsUnique`.

## 4. What is proved

TLAPS proves, for every set of clients, jobs, deliveries, sources, Workers,
requests and Products, every bound and every choice of faults and events:

| Theorem | Statement |
| --- | --- |
| `CoalescingDpc_proofs!TypeCorrect` | `Spec => []TypeOK` |
| `CoalescingDpc_proofs!OwnerKept` | `Spec => OwnerKeepsGate` |
| `CoalescingDpc_proofs!QuietGate` | without faults, `Spec => []AtMostOneDpc` |
| `EncStores_proofs!TypeCorrect` | `Spec => []TypeOK` |
| `EncStores_proofs!StoresNeverDiverge` | `Spec => []StoresAgree` |
| `EncStores_proofs!ImplementsPair` | `Spec => PublishedAsPair` |
| `EncPairs_proofs!PairIsOnePackage` | `Spec => []PairFromOnePackage` |
| `EncPairs_proofs!NothingOutlivesPackage` | `Spec => []NoOrphanSnapshot` |
| `EncPairs_proofs!TransferKeepsCandidate` | `Spec => []InFlightKept` |
| `EncPairs_proofs!ReadyCanBeSent` | `Spec => []ReadyUnsubmitted` |
| `EncPairs_proofs!PauseHolds` | `Spec => []PauseHoldsDelivery` |
| `EncPairs_proofs!NewPackageCreated` | `Spec => []CreateSucceeds` |
| `EncPairs_proofs!FailedSourceKept` | `Spec => []FailedSnapshotKept` |
| `DpcScan_proofs!TypeCorrect` | `Spec => []TypeOK` |
| `DpcScan_proofs!CutoffExcluded` | `Spec => []ImportExcluded` |
| `DpcScan_proofs!NoEditLost` | without `"block"`, `Spec => []EditsKept` |
| `ProductHistory_proofs!HistoryTyped` | `Spec => []TypeOK` |
| `ProductHistory_proofs!ExportsOnce` | `Spec => []ExportedOnce` |
| `ProductHistory_proofs!OutcomesTrue` | `Spec => []OutcomeTrue` |
| `ProductHistory_proofs!SuccessesTrue` | `Spec => []SuccessTrue` |
| `ProductHistory_proofs!KeepsEvidence` | `Spec => EvidenceKept` |
| `Catalogue_proofs!CatalogueTyped` | `Spec => []TypeOK` |
| `Catalogue_proofs!IndexNeverBehind` | `Spec => []IndexKnows` |
| `Catalogue_proofs!UniqueShortIds` | `Spec => []ShortIdsUnique` |
| `Catalogue_proofs!StoredReferences` | `Spec => []ReferencesStored` |
| `Catalogue_proofs!OrphansReported` | `Spec => []NoSilentOrphan` |
| `Catalogue_proofs!ListingIsCurrent` | `Spec => []ListingCatchesUp` |
| `ReviewSession_proofs!ReviewTyped` | `Spec => []TypeOK` |
| `ReviewSession_proofs!NothingMissed` | under `Separate`, `Spec => []BaselineShown` |
| `ReviewSession_proofs!NothingUnwatched` | under `Separate`, `Spec => []ObligationKept` |
| `ReviewSession_proofs!RecoveryOfAll` | `Spec /\ []AllRecovered => [](BaselineShown /\ ObligationKept)` |
| `DataSources_proofs!SourcesTyped` | `Spec => []TypeOK` |
| `DataSources_proofs!DisplaysAgree` | `Spec => []DisplayAgrees` |
| `DataSources_proofs!StatusNeverOlder` | `Spec => NeverOlder` |
| `DataSources_proofs!NothingComesBack` | `Spec => OnlyIfWanted` |
| `DataSources_proofs!ChoiceIsStored` | `Spec => []StoredIsIntent` |

The assumptions are those of the modules (`GateAssumption`, `BoundAssumption`,
`ScanAssumption`, `HistoryAssumption`, `CatalogueAssumption`,
`FreshnessAssumption`, `SourcesAssumption`: bounds are numbers, `None` is none of
the values, and the names of resets are not those of the other callers).

**The gate.** `AtMostOneDpc`, which no run checks, is not inductive. `GateInv`
adds that no reservation is old, that no job is deleted, that a client inside an enqueue is the owner
of the gate and an owner that is a client is inside an enqueue, and that a job
which is queued or running owns the gate or is the ticket of a client that is
about to hand the gate over to it. `OwnerKeepsGate` needs only types.

**The two stores.** `StoresAgree` says that S-128 is ahead only for the
accepted candidates of the active package. That a finalizer which has read its
publication still finds the same candidates when it writes S-128, and again
when it completes SQL, is the argument: between the steps only the API acts,
and what the API can do to a track needs a delivery that is not accepted. So
`IInv` in `EncStores_proofs` has two parts:

- `Lane`: one job at a time (`OneJob`), a candidate is the edition after the
  published one (`Candidates`), what a scan writes back after a failed snapshot
  is what is there (`Snapshotting`), and the member an export works on is not
  under way (`Building`);
- `Catalogued`: the publication the finalizer has read is still the one to
  publish (`Finalizer`), and S-128 shows the candidates of a package exactly
  when it holds its attachment (`Stores`).

There is one lemma for each part of `Next` (`KeepsScan`, `KeepsExport`, ...),
with one step per action. `ImplementsPair` then follows from one lemma,
`PairStep`: under the invariant every step publishes in S-128, records in SQL,
or leaves both alone.

**The pair and its transfers.** Five properties say that what the rows of a
package show fits together, and they rest on one invariant, `PInv` in
`EncPairs_proofs`:

- `Based`: a job that is neither between two packages nor at its end works for
  the package there is;
- `Owned`: what is built, and what a compilation has written, is the last
  revision of its track and carries the package's number;
- `Sent`: no delivery is for a newer revision than the last one, a transfer that
  may have arrived is for the last one of a track in transit, and at most one
  delivery that was not refused stands for that revision - none while the track
  is ready or being built;
- `Held`: a paused package has no member under way.

Most steps build nothing and send nothing. `CalmStep` deals with all of them: if
each track keeps its state, candidate and package, or goes from a state that is
not in transit to one that is not built, `PInv` is kept. `RestoredCalm` and
`PairCalm` show it of the discards; only the steps of the export and the delivery
are left for lemmas of their own.

**The scan gets through.** `CreateSucceeds` and `FailedSnapshotKept` look at the
moments in which a source has no package. `SInv` in `EncPairs_proofs` adds to the
above where a job can be (`Control`), that the API has no Product lock while a
job has both (`BothLocked`), that a candidate goes back to a track without one
(`Origins`), what a job has made sure of before the snapshot, the acknowledgement
and the creation, and which nobody takes away in between (`Prepared`), and that a
failed snapshot and its replay row come and go together (`Traced`).

**The scan.** `TInv` (types; nothing lies in the future; between the cutoff and
the job's start once the job has read its clock) is inductive by itself and
gives the types and `ImportExcluded`. `EditsKept` needs to know what the scan
still plans to do. Its strengthening `KInv` says of each source, for the edits
that are not settled and come after the cutoff (`Unsettled`):

- no package and no replay row begins after one of them that it should bring
  (`PackageKnows`, `RowKnows`);
- a source the scan has dealt with is kept up to the scan's start (`Handled`),
  which is what makes moving the watermark right (`Complete`);
- a row whose bound will be retired is not needed: the package has everything
  up to the start (`Retirable`);
- what the plan decided about a source before its locks were taken still fits
  (`Planned`). This is the part that a hold released during a scan breaks, and
  the theorem's premise excludes.

The lemmas `T...` and `K...` have one action each; `OtherSource`, `KStay`,
`KFinish` and `KLeave` say once what a step leaves to the other sources.

**The history.** What keeps the verdicts true is one fact: who is in the part
of the code between taking and releasing the Product lock holds the lock
(`LockHeld`). `IInv` has beside it: an export begins only behind a guard and
after the row was marked (`ExecutionFirst`, `Began`); the row that a sweep
judges by, read again under the lock, says started if the present one does
(`SweepCurrent`); where the row, the receipt or a Worker says failed, the export
did not begin and will not (`FailedIsDead`); where one says succeeded, the
completion is stored (`SucceededIsStored`).

**The Data Catalogue.** The gates of the services make a request alone with the
streams it will append to (`GatesHeld`), so what it has checked still holds
when it appends (`RequestKnows`); the log is consistent (`LogKnows`,
`CategoriesOnce`, `PackagesFirst`); every short id in the log or in a request
is taken (`IdsTaken`); every row belongs to at most one request or event
(`RowsOwned`); and the projections show the log up to a position at or after
the subscription's (`StreamsKnown`, `ListedKnows`, `PositionsKnown`), which is
what lets a reconnect repeat events. `LastExists` carries the existence of a
maximum of a set of positions.

**The Review page.** `BaselineShown` compares a baseline with the payload that is
shown. It does not say that the payload is whole: a content that could not be read
is acknowledged with the rest, and what the theorem rules out is a payload, or an
error in it, from before the acknowledged revision. `EventuallyFresh` is to be read
in the same way. The payload was loaded long after the baseline was asked for, so
`IInv` in `ReviewSession_proofs` follows the content back: a Product is neither shown nor
loaded before its baseline was asked for (`Waiting`); a baseline is not newer than
the server, nor than the load under way, nor than the content (`Acknowledged`);
the refresh of a check loads what the check has seen (`Published`); a check that
still counts is alone and is about the enabled Products (`Alone`). The two
properties need each other: a Product that is shown and not watched (`Watched`)
would have any revision acknowledged as its first one. One step can break this,
the accepted refresh that ends a full recovery: it covers the enabled Products and
clears the obligation of all. Hence `RecoveryOfAll` assumes that none is disabled
then (`AllRecovered`), and nothing of the scenario. The premise `Separate` of the
other two - no scenario combines failing full primes with disabled Products, as in
the run `review_page` - implies it, by `Recovering` and `Composed`. Without it the
run `review_recovery` shows `ObligationKept` violated (section 6).

**The data sources.** Everything rests on the order of the generations. `Core` says
that nothing has a generation its source has not reached (`Ordered`), that a
generation has one activation and one read of each Product (`Single`), and that
the activation which counts knows whether its source is enabled and has a
generation that the provider will accept (`Current`) - the delicate case is a
provider that a failed activation has suspended with a generation of its own.
`DisplayAgrees` is part of `Core`, and the types need it: a status is published
into layers that must exist. `Newest` adds that a read which counts and an
activation which counts exclude each other and that neither brings anything older
than what is shown, which gives `NeverOlder`. `Choices` says that what is requested
is wanted (`Wanted`, for `OnlyIfWanted`) and that, when the storage differs from the
user's choice, something under way is going to write it (`Chosen`, for
`StoredIsIntent`).

The proofs sort the actions by what they do to the operations and not by who calls
them: `Turns` (activations begin: startup, a switch, a refresh, a reset), `Continues`
(one goes on), `Ends` (one commits or fails), the reads, and what happens aside.
Each part of `IInv` has one lemma for each of these shapes, and one lemma for each
action shows its shape.

## 5. What is only model-checked

Every invariant and every action property that a passing run checks is also
proved. Liveness (`GateReopens`, `AcceptedIsPublished`, `InterruptedEnds`,
`ReplayEnds`, `PendingEnds`, `EventuallyFresh`, `RefreshEnds`) needs fairness and
`ENABLED`, which are out of the prover's reach, and stays with TLC. So do the
disagreements of section 6, which are counterexamples.

`InterruptedEnds` names what recovery waits for, and one of its cases does not
end by itself: when a member is interrupted while its counterpart has been
sent, accepted or rejected, recovery refuses
(`PCA/docs/enc-package-interrupted-export-recovery.md:23`), and the package
stays as it is until somebody repairs it. `ReplayEnds` likewise names what can
keep a replay row, and with it an operator's discard waiting: the source is
blocked, or its last snapshot failed and nothing was edited since.

## 6. Disagreements between the code and what it says

- `FailedBuildDiscardable` (`package_rejected`): a rejected edition is rebuilt
  under the same version. Until the rebuild has stored its own revision, the
  delivery guard judges it by the rejected one; if the rebuild fails before
  that, its candidate can be neither discarded, exported nor replaced.
- `SendingHasSender` (`package_sending`): a Worker that dies during the upload
  leaves a `Sending` delivery that neither reconciliation nor a notice accepts.
- `EditsKept` (`dpc_scan_blocked`): the scan decides from the tracks it reads
  before it takes a source's locks how far back it looks, and with the tracks
  it reads under the locks whether it goes on. A hold that is released between
  the two lets it look only at the edits since the watermark, take them for all
  edits since the replay bound, and retire the row
  (`PCA/Jobs/EncPackageDetectionService.cs:185`, `:323`).
- `ObligationKept` (`review_recovery`): after a failed initial snapshot one flag
  stands for all Products, and the accepted refresh of the enabled ones clears
  it. A Product that is disabled at that time keeps its content and has neither
  baseline nor obligation; enabled again, its next revision counts as the first
  one seen, and a change in between is not shown.

Seven more were met while modelling; they are in the models' behaviours, and no
entry of `PROJECT.json`'s runs is spent on them:

- An automatic refresh whose History or validation files cannot be read replaces
  the content there was by an error (`reviewProductSession.js:106`,
  `reviewHistoryLoader.js:119`) and counts as a success: the check acknowledges
  the new revision (`workspaceFreshnessMonitor.js:214`), and nothing retries until
  the Product changes again or the user refreshes.
  `src/ProductCatalogue/docs/fi-022-workspace-freshness.md:67` says that "the last
  successful workspace content remains visible" and line 69 that "automatic
  Product refresh failures do not advance the stored revision, so later checks
  retry the same backend change". The comment at `reviewProductSession.js:120` and
  `fi-039-incremental-review.md:68` set "returned per-content failure states"
  apart, without saying that they are acknowledged. `FailureNotAcknowledged` in
  `ReviewSession` is the statement of `fi-022`, and with `ReviewPartial.cfg` TLC
  finds it violated: one Product is loaded, changes, and its refresh comes back in
  part.
- A client that dies after Hangfire stored the job and before `OnCreated`
  leaves a job the gate does not know; after two minutes the next tick queues a
  second scan. `QuietGate` is therefore a theorem without faults only.
- A delivery can be reserved between the check and the hold
  (`PCA/Controllers/UploadController.cs:233`): reserving takes no Product lock,
  so a Product can be in transit and on hold.
- A Product candidate that no package owns can be sent, and its notice is then
  refused (`PCA/Services/Jobs/IcEncDeliveryRepository.cs:53`).
- Two categories created at the same time may get the same prefix, because the
  prefix is looked up in a listing that the subscription fills later
  (`DCA/Controllers/DispatcherController.cs:92`). Short ids stay unique all the
  same: `UniqueShortIds` does not assume that prefixes are.
- A reset of the data sources writes the defaults when its loads have ended
  (`dataSourceController.js:395`) and looks at no newer choice, as startup does;
  the panel's switches stay usable meanwhile. A source that is switched then
  and the storage disagree until the next switch or refresh. Nothing says which
  of the two should win.
- A data source that fails to load at startup stays in the stored selection, as
  the documents say, until the next refresh, also a timed one, or the next
  switch of another source: that writes the sources that are requested now, and
  the failed one is no longer among them (`dataSourceController.js:192`). Where
  only one source can be selected, the next startup recovers it from the empty
  selection.

## 7. Plan

Done, in this order: the gate; one package source with all its actors and the
abstract pair; the Review page and its monitor; the scan's windows; the product
history; the Data Catalogue; the theorems of section 4; the data sources of the
main map. What is left, by value:

1. **The package popup**, which uses the monitor of the Review page with
   `requireRefresh`: `RecoveryOfAll` should hold of it without a premise, because
   it disables no Product.
2. **`DpcScan` with holds that change during a scan**: which edits are lost is
   known (section 6); a bound on them would be worth a property once the code
   reads the tracks once.
3. **Composition** of `EncPackage` with `DpcScan`: that the choices of `EncScan`
   are those of one source of `DpcScan`, as a refinement.
4. **The assignment page** of the Data Catalogue client
   (`src/DataCatalogue/src/features/assignments`): a draft of bindings, a save
   whose requests may be refused or not answered, and the check of what the
   server has made of them.
5. **`ProductHistory`** for discards and publications, and for jobs that expired.

## 8. Not modelled

- FTPS transfer, SevenCs, compilers, the geodatabase's geometry code: I/O and
  computation on external data; their failures are actions of the models.
- Status projections, dashboard queries, change summaries, mail parsing:
  read-only or pure functions.
- The web clients apart from the Review page's content and the data sources of
  the main map: rendering, filtering and requests. They are the greater part
  of the repository's lines. Of the data sources: the filters a user sets, map
  layers that are kept because their graphics did not change, session-only
  sources, and the migration of older stored selections.
- Feature catalogues, mappings and product files: data.
- Of the Product tracks: Update exports and the states no code produces. Of the
  product history: identity mismatches, records written before the audit
  existed, and jobs that expired from Hangfire. Of the Data Catalogue:
  workspace locks, changes and termination of categories, severity and detail
  updates and the creation of pipelines, which race with nothing but
  themselves; multi-stream append, truncation, deletion and backward reads,
  which no caller uses; and reads.

## 9. Running

In this directory:

```
tlc -config CoalescingDpcFaulty.cfg CoalescingDpc
tlc -config EncPackageFair.cfg MCEncPackage       # and the other EncPackage*.cfg
tlc -config DpcScan.cfg DpcScan                   # and DpcScanBlocked.cfg
tlc -config ProductHistory.cfg ProductHistory
tlc -config Catalogue.cfg MCCatalogue
tlc -config ReviewPage.cfg MCReviewSession        # and ReviewRecovery.cfg, ReviewPartial.cfg
tlc -config DataSources.cfg DataSources
tlapm CoalescingDpc_proofs.tla                    # and the other *_proofs.tla
```
