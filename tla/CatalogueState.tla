--------------------------- MODULE CatalogueState ---------------------------
(***************************************************************************)
(* The Data Catalogue: requests append events to an in-memory event store, *)
(* one subscription projects the store's global log into the listings, and *)
(* geometry goes to a geodatabase that shares no transaction with the      *)
(* store.                                                                  *)
(*                                                                         *)
(* An event is a record: its kind, the key that names its stream, a value, *)
(* and the geometry row it refers to.  A stream is the events of one key   *)
(* and one class of kinds, in the order of the log; the API neither        *)
(* truncates nor deletes one.  Positions count from 1.                     *)
(***************************************************************************)
EXTENDS Naturals, Sequences, FiniteSets

CONSTANTS
    Requests,       \* HTTP requests that may be in progress together
    Categories, Packages,   \* identifiers that may be given out
    Pipelines,      \* the pipelines, which exist from the start
    Prefixes,       \* category prefixes
    Names,          \* workspace names
    Hashes,         \* fingerprints of geometry replacement requests
    MaxLog,         \* bound: events in the log
    MaxRows,        \* bound: geometry rows
    MaxNumber,      \* bound: sequence numbers of short ids
    Events,         \* which of the optional events below may happen
    None            \* no value

\* "geometry" a geodatabase transaction fails; "refused" a command fails and
\* appends nothing; "unknown" a command is reported as failed although its
\* events were appended; "cleanup" a workspace's clean-up fails;
\* "reconnect" the subscription fails and starts again from its checkpoint.
EventNames == {"geometry", "refused", "unknown", "cleanup", "reconnect"}

Bindings == Packages \X Pipelines
ShortIds == Prefixes \X (0 .. MaxNumber)

Routing == {"bound", "unbound"}
Kinds == {"category", "package", "geometry", "workspace"} \cup Routing
Steps == {"begun", "written", "recorded", "failed"}
Keys == Categories \cup Packages \cup Pipelines \cup Bindings
Values == Prefixes \cup ShortIds \cup Names \cup Hashes \cup {None}

ASSUME CatalogueAssumption ==
    /\ MaxLog \in Nat /\ MaxRows \in Nat /\ MaxNumber \in Nat
    /\ Events \subseteq EventNames
    /\ None \notin Names \cup Hashes \cup Prefixes \cup Kinds \cup Steps

VARIABLES
    log,        \* InMemoryEventStore._global
    rows,       \* the geodatabase's coverage rows
    lastRow,    \* the row written last
    taken,      \* PackageIdentityService._shortIds
    next,       \* PackageIdentityService._nextNumbers
    index,      \* PipelineAssignmentIndex: what it holds of each binding
    prefixes,   \* DispatchRepository._categories: the prefixes it lists
    listed,     \* PackageRepository._packages: the row of each package's AOI
    position,   \* the subscription has handled the log up to here
    req,        \* the requests in progress
    acked,      \* positions of events whose request has been answered
    reported    \* rows named by an error in the application's log

storeVars == <<rows, lastRow>>
identityVars == <<taken, next>>
projectionVars == <<index, prefixes, listed>>
vars == <<log, storeVars, identityVars, projectionVars, position,
          req, acked, reported>>

NoRequest == [op |-> None, step |-> None, key |-> None, value |-> None, row |-> 0]

Event(kind, key, value, row) ==
    [kind |-> kind, key |-> key, value |-> value, row |-> row]

\* The positions of the events of some kinds with this key.
At(kinds, key) ==
    {i \in DOMAIN log : log[i].kind \in kinds /\ log[i].key = key}

StreamExists(kind, key) == At({kind}, key) # {}

Last(positions) ==
    IF positions = {} THEN 0
    ELSE CHOOSE i \in positions : \A j \in positions : j <= i

\* BindingState folded from its stream.
IsActive(b) ==
    LET i == Last(At(Routing, b)) IN i # 0 /\ log[i].kind = "bound"

\* PackageState.GeometryRef and GeometryRequestHash folded from its stream.
CurrentRow(p) ==
    LET i == Last(At({"package", "geometry"}, p)) IN
    IF i = 0 THEN 0 ELSE log[i].row

RequestHash(p) ==
    LET i == Last(At({"geometry"}, p)) IN
    IF i = 0 THEN None ELSE log[i].value

Referenced == {log[i].row : i \in DOMAIN log} \ {0}

Idle(r) == req[r].op = None

\* A request's op is the kind of the event it is to append.  These operations
\* go through one static semaphore.
GateFree(ops) == \A r \in Requests : req[r].op \notin ops

InProgress(r, op, step) == req[r].op = op /\ req[r].step = step

Begin(r, op, key, value) ==
    /\ Idle(r)
    /\ req' = [req EXCEPT ![r] = [op |-> op, step |-> "begun", key |-> key,
                                  value |-> value, row |-> 0]]

Return(r) == req' = [req EXCEPT ![r] = NoRequest]

\* How a command ends: its event is stored; it is refused; or it is reported as
\* failed although its event was stored.
Outcomes == {"stored"} \cup (Events \cap {"refused", "unknown"})

Record(r, outcome) ==
    LET q == req[r]
        row == IF q.op \in Routing THEN 0 ELSE q.row
    IN  /\ outcome # "refused" => Len(log) < MaxLog
        /\ log' = IF outcome = "refused" THEN log
                  ELSE Append(log, Event(q.op, q.key, q.value, row))

\* A geodatabase transaction writes a row for the request.
WriteRow(r) ==
    /\ lastRow < MaxRows
    /\ lastRow' = lastRow + 1
    /\ rows' = rows \cup {lastRow'}
    /\ req' = [req EXCEPT ![r].step = "written", ![r].row = lastRow']

\* Mutant of Report: the failure is logged without the row.
ReportNothing(r, outcome) == reported' = reported

\* The error that is logged when a command fails names the row it leaves.
Report(r, outcome) ==
    reported' = IF outcome = "stored" THEN reported
                ELSE reported \cup {req[r].row}

Init ==
    /\ log = <<>>
    /\ rows = {} /\ lastRow = 0
    /\ taken = {} /\ next = [x \in Prefixes |-> 0]
    /\ index = [b \in Bindings |-> [active |-> FALSE, at |-> 0]]
    /\ prefixes = {}
    /\ listed = [p \in Packages |-> 0]
    /\ position = 0
    /\ req = [r \in Requests |-> NoRequest]
    /\ acked = {} /\ reported = {}
=============================================================================
