-------------------------- MODULE Catalogue_proofs ---------------------------
(***************************************************************************)
(* What the Data Catalogue promises, for any number of requests, packages, *)
(* pipelines and names, and a log of any length.  The gates keep a request *)
(* of each kind alone with its streams; what it knows of its row, its      *)
(* short id or its position then stays true until it returns.              *)
(***************************************************************************)
EXTENDS Catalogue, SequenceTheorems, TLAPS

\* The events that say which area a package has.
Areas == {"package", "geometry"}

\* What a request in progress knows: what it works on, and which row it holds.
RequestKnows ==
    \A r \in Requests : LET q == req[r] IN
        /\ q.op = "category" => q.key \in Categories /\ q.value \in Prefixes /\ q.step = "begun"
        /\ q.op = "package" => q.key \in Packages /\ q.step \in {"begun", "written"}
        /\ q.op = "geometry" => q.key \in Packages /\ q.step \in {"begun", "written"}
        /\ q.op \in Routing => q.key \in Bindings /\ q.step \in {"begun", "recorded"}
        /\ q.op = "workspace" => q.key \in Pipelines /\ q.step \in {"begun", "written", "failed"}
        /\ q.op = None => q.row = 0
        /\ q.op \notin Routing => (IF q.step \in {"written", "failed"} THEN q.row \in rows ELSE q.row = 0)

\* The gate of a kind of request lets one in.
GatesHeld ==
    \A r, s \in Requests :
        req[r].op = req[s].op /\ req[r].op \in {"package", "geometry", "workspace"} => r = s

\* What was recorded is what was asked for.
LogKnows ==
    \A i \in DOMAIN log :
        /\ log[i].kind = "category" => log[i].key \in Categories /\ log[i].value \in Prefixes
        /\ log[i].kind \in Areas => log[i].key \in Packages /\ log[i].row # 0
        /\ log[i].kind \in Routing => log[i].key \in Bindings

CategoriesOnce ==
    \A i, j \in DOMAIN log :
        log[i].kind = "category" /\ log[j].kind = "category" /\ log[i].key = log[j].key => i = j

\* A short id that is recorded, or may be, is taken.
IdsTaken ==
    /\ \A i \in DOMAIN log : log[i].kind = "package" => log[i].value \in taken
    /\ \A r \in Requests : req[r].op = "package" =>
         /\ req[r].value \in taken
         /\ \A i \in DOMAIN log : log[i].kind = "package" => log[i].value # req[r].value

\* A recorded assignment is still at the position that its request remembers.
PositionsKnown ==
    \A r \in Requests : req[r].op \in Routing /\ req[r].step = "recorded" =>
        /\ req[r].row \in DOMAIN log
        /\ log[req[r].row].kind = req[r].op /\ log[req[r].row].key = req[r].key

\* A request's row is its own; only the workspace it belongs to may refer to it,
\* after a failure.
RowsOwned ==
    \A r \in Requests : req[r].op \notin Routing /\ req[r].row # 0 =>
        /\ \A s \in Requests : req[s].op \notin Routing /\ req[s].row = req[r].row => s = r
        /\ \A i \in DOMAIN log : log[i].row = req[r].row =>
             /\ log[i].kind = "workspace" /\ log[i].key = req[r].key
             /\ req[r].op = "workspace" /\ req[r].step = "failed"

\* The first area of a package is its creation, which happens once.
PackagesFirst ==
    /\ \A i, j \in DOMAIN log :
         log[i].kind = "package" /\ log[j].kind = "package" /\ log[i].key = log[j].key => i = j
    /\ \A i \in DOMAIN log : log[i].kind = "geometry" =>
         \E j \in At({"package"}, log[i].key) : j < i

\* What a request found out about its package's stream is still so.
StreamsKnown ==
    \A r \in Requests :
        /\ req[r].op = "package" => ~StreamExists("package", req[r].key)
        /\ req[r].op = "geometry" => StreamExists("package", req[r].key)

\* A last event exists.
LastExists ==
    \A p \in Packages : At(Areas, p) # {} =>
        \E i \in At(Areas, p) : \A j \in At(Areas, p) : j <= i

\* What the listing shows was the area of the package, and is the last one when the
\* subscription has passed it.
ListedKnows ==
    \A p \in Packages :
        /\ \A i \in At({"package"}, p) : i <= position => listed[p] # 0
        /\ listed[p] # 0 => \E i \in At(Areas, p) : listed[p] = log[i].row
        /\ \A i \in At(Areas, p) :
             i <= position /\ (\A j \in At(Areas, p) : j <= i) => listed[p] = log[i].row

IInv == /\ TypeOK /\ RequestKnows /\ GatesHeld /\ LogKnows /\ CategoriesOnce
        /\ IdsTaken /\ ShortIdsUnique /\ PositionsKnown /\ IndexKnows
        /\ RowsOwned /\ ReferencesStored /\ NoSilentOrphan
        /\ PackagesFirst /\ StreamsKnown /\ LastExists /\ ListedKnows
-----------------------------------------------------------------------------
(* What the two steps that write do to the log and to the rows.            *)

\* A command appends the request's event, or nothing.
Recorded(r) ==
    LET q == req[r] IN
    /\ log' \in Seq(Entries) /\ Len(log') = Len(log) + 1
    /\ log'[Len(log')] =
         [kind |-> q.op, key |-> q.key, value |-> q.value, row |-> IF q.op \in Routing THEN 0 ELSE q.row]
    /\ \A i \in 1 .. Len(log) : log'[i] = log[i]

LEMMA RecordEffect ==
  ASSUME TypeOK, NEW r \in Requests, NEW o, Record(r, o), req[r].op \in Kinds, req[r].key \in Keys
  PROVE  IF o = "refused" THEN log' = log ELSE Recorded(r)
<1> DEFINE e == [kind |-> req[r].op, key |-> req[r].key, value |-> req[r].value,
                 row |-> IF req[r].op \in Routing THEN 0 ELSE req[r].row]
<1>1. e \in Entries
  BY DEF TypeOK, LogTyped, RequestTyped, Entries
<1>2. o # "refused" => log' = Append(log, e)
  BY DEF Record, Event
<1>3. log \in Seq(Entries)
  BY DEF TypeOK, LogTyped, RequestTyped, Entries
<1> HIDE DEF e
<1>4. CASE o # "refused"
  BY <1>1, <1>2, <1>3, <1>4, AppendProperties DEF Recorded, e
<1> QED BY <1>4 DEF Record

LEMMA WriteEffect ==
  ASSUME TypeOK, NEW r \in Requests, WriteRow(r)
  PROVE  /\ lastRow' = lastRow + 1 /\ rows' = rows \cup {lastRow + 1}
         /\ req' = [req EXCEPT ![r] = [@ EXCEPT !.step = "written", !.row = lastRow + 1]]
BY DEF TypeOK, LogTyped, RequestTyped, WriteRow

LEMMA RecordTyped ==
  ASSUME TypeOK, NEW r \in Requests, NEW o, Record(r, o), req[r].op \in Kinds, req[r].key \in Keys,
         req[r].op \notin Routing => req[r].row \in 0 .. lastRow
  PROVE  /\ log' \in Seq(Entries) /\ Len(log) <= Len(log')
         /\ \A i \in 1 .. Len(log') : log'[i].row \in 0 .. lastRow
         /\ o # "refused" => Len(log') = Len(log) + 1
<1>1. log \in Seq(Entries) /\ Len(log) \in Nat /\ \A i \in 1 .. Len(log) : log[i].row \in 0 .. lastRow
  BY DEF TypeOK, LogTyped, RequestTyped, Entries
<1>2. CASE o = "refused"
  BY <1>1, <1>2, RecordEffect
<1>3. CASE o # "refused"
  <2>1. Recorded(r)
    BY <1>3, RecordEffect
  <2>2. log'[Len(log')].row \in 0 .. lastRow
    BY <2>1 DEF Recorded, TypeOK, LogTyped
  <2> QED BY <1>1, <2>1, <2>2 DEF Recorded
<1> QED BY <1>2, <1>3

\* The prefix that a category gives its packages.
LEMMA CategoryPrefix ==
  ASSUME TypeOK, LogKnows, CategoriesOnce, NEW c \in Categories, StreamExists("category", c)
  PROVE  log[Last(At({"category"}, c))].value \in Prefixes
<1>1. PICK i \in DOMAIN log : log[i].kind = "category" /\ log[i].key = c
  BY DEF StreamExists, At
<1>2. At({"category"}, c) = {i}
  BY <1>1 DEF At, CategoriesOnce
<1>3. i \in Nat
  BY <1>1 DEF TypeOK, LogTyped
<1>4. Last({i}) = i
  BY <1>3 DEF Last
<1> QED BY <1>1, <1>2, <1>4 DEF LogKnows


LEMMA RequestFacts ==
  ASSUME TypeOK, RequestKnows, NEW r \in Requests, req[r].op # None
  PROVE  /\ req[r].op \in Kinds /\ req[r].key \in Keys
         /\ req[r].op \notin Routing => req[r].row \in 0 .. lastRow
<1>1. req[r].op \in Kinds
  BY DEF TypeOK, RequestTyped
<1>2. req[r].key \in Keys
  BY <1>1 DEF RequestKnows, Kinds, Routing, Keys
<1>3. req[r].op \notin Routing => req[r].row \in 0 .. lastRow
  <2>1. lastRow \in Nat /\ \A x \in rows : x \in 0 .. lastRow
    BY DEF TypeOK, LogTyped
  <2>2. req[r].op \notin Routing => req[r].row \in rows \/ req[r].row = 0
    BY DEF RequestKnows
  <2> QED BY <2>1, <2>2
<1> QED BY <1>1, <1>2, <1>3
-----------------------------------------------------------------------------
LEMMA LogTypedNext ==
  ASSUME TypeOK, RequestKnows, [Next]_vars PROVE LogTyped' /\ Len(log) <= Len(log') /\ lastRow <= lastRow'
<1>1. ASSUME NEW r \in Requests, NEW c \in Categories, NEW x \in Prefixes, CategoryChecked(r, c, x)
  PROVE LogTyped' /\ Len(log) <= Len(log') /\ lastRow <= lastRow'
  BY <1>1, CatalogueAssumption DEF CategoryChecked, storeVars, TypeOK, LogTyped
<1>2. ASSUME NEW r \in Requests, NEW o \in Outcomes, CategoryRecorded(r, o) PROVE LogTyped' /\
  Len(log) <= Len(log') /\ lastRow <= lastRow'
  <2>1. req[r].op # None /\ \E out : Record(r, out)
    BY <1>2, CatalogueAssumption DEF InProgress, Routing, Kinds, CategoryRecorded
  <2>2. /\ log' \in Seq(Entries) /\ Len(log) <= Len(log')
        /\ \A i \in 1 .. Len(log') : log'[i].row \in 0 .. lastRow
    BY <2>1, RequestFacts, RecordTyped
  <2>3. \A row \in reported' : row \in Nat /\ 0 < row /\ row <= lastRow
    BY <1>2, <2>1, CatalogueAssumption, RequestFacts DEF TypeOK, LogTyped, RequestKnows, InProgress,
      CategoryRecorded, Return
  <2> QED BY <1>2, <2>2, <2>3 DEF storeVars, TypeOK, LogTyped, storeVars, CategoryRecorded
<1>3. ASSUME NEW r \in Requests, NEW p \in Packages, NEW c \in Categories, NEW published \in
  BOOLEAN, NEW id \in ShortIds, PackageBegins(r, p, c, published, id) PROVE LogTyped' /\ Len(log) <=
  Len(log') /\ lastRow <= lastRow'
  BY <1>3, CatalogueAssumption DEF PackageBegins, storeVars, TypeOK, LogTyped
<1>4. ASSUME NEW r \in Requests, PackageWritten(r) PROVE LogTyped' /\ Len(log) <= Len(log') /\
  lastRow <= lastRow'
  <2>1. lastRow' = lastRow + 1 /\ rows' = rows \cup {lastRow + 1}
    BY <1>4, WriteEffect DEF PackageWritten
  <2>2. log' = log /\ reported' = reported
    BY <1>4 DEF PackageWritten
  <2>3. \A row \in rows' : row \in Nat /\ 0 < row /\ row <= lastRow'
    BY <2>1 DEF TypeOK, LogTyped
  <2>4. \A row \in reported' : row \in Nat /\ 0 < row /\ row <= lastRow'
    BY <2>1, <2>2 DEF TypeOK, LogTyped
  <2>5. \A i \in DOMAIN log' : log'[i].row \in 0 .. lastRow'
    BY <2>1, <2>2 DEF TypeOK, LogTyped, Entries
  <2>6. lastRow' \in Nat /\ log' \in Seq(Entries) /\ Len(log) <= Len(log') /\ lastRow <= lastRow'
    BY <2>1, <2>2 DEF TypeOK, LogTyped
  <2> QED BY <2>3, <2>4, <2>5, <2>6 DEF LogTyped
<1>5. ASSUME NEW r \in Requests, PackageRefused(r) PROVE LogTyped' /\ Len(log) <= Len(log') /\
  lastRow <= lastRow'
  BY <1>5, CatalogueAssumption DEF PackageRefused, storeVars, TypeOK, LogTyped
<1>6. ASSUME NEW r \in Requests, NEW o \in Outcomes, PackageRecorded(r, o) PROVE LogTyped' /\
  Len(log) <= Len(log') /\ lastRow <= lastRow'
  <2>1. req[r].op # None /\ \E out : Record(r, out)
    BY <1>6, CatalogueAssumption DEF InProgress, Routing, Kinds, PackageRecorded
  <2>2. /\ log' \in Seq(Entries) /\ Len(log) <= Len(log')
        /\ \A i \in 1 .. Len(log') : log'[i].row \in 0 .. lastRow
    BY <2>1, RequestFacts, RecordTyped
  <2>3. \A row \in reported' : row \in Nat /\ 0 < row /\ row <= lastRow
    BY <1>6, <2>1, CatalogueAssumption, RequestFacts DEF TypeOK, LogTyped, RequestKnows, InProgress,
      PackageRecorded, Report, Released, Return
  <2> QED BY <1>6, <2>2, <2>3 DEF storeVars, TypeOK, LogTyped, storeVars, PackageRecorded
<1>7. ASSUME NEW r \in Requests, NEW p \in Packages, NEW h \in Hashes, ReplacementBegins(r, p, h)
  PROVE LogTyped' /\ Len(log) <= Len(log') /\ lastRow <= lastRow'
  BY <1>7, CatalogueAssumption DEF ReplacementBegins, storeVars, TypeOK, LogTyped
<1>8. ASSUME NEW r \in Requests, ReplacementWritten(r) PROVE LogTyped' /\ Len(log) <= Len(log') /\
  lastRow <= lastRow'
  <2>1. lastRow' = lastRow + 1 /\ rows' = rows \cup {lastRow + 1}
    BY <1>8, WriteEffect DEF ReplacementWritten
  <2>2. log' = log /\ reported' = reported
    BY <1>8 DEF ReplacementWritten
  <2>3. \A row \in rows' : row \in Nat /\ 0 < row /\ row <= lastRow'
    BY <2>1 DEF TypeOK, LogTyped
  <2>4. \A row \in reported' : row \in Nat /\ 0 < row /\ row <= lastRow'
    BY <2>1, <2>2 DEF TypeOK, LogTyped
  <2>5. \A i \in DOMAIN log' : log'[i].row \in 0 .. lastRow'
    BY <2>1, <2>2 DEF TypeOK, LogTyped, Entries
  <2>6. lastRow' \in Nat /\ log' \in Seq(Entries) /\ Len(log) <= Len(log') /\ lastRow <= lastRow'
    BY <2>1, <2>2 DEF TypeOK, LogTyped
  <2> QED BY <2>3, <2>4, <2>5, <2>6 DEF LogTyped
<1>9. ASSUME NEW r \in Requests, ReplacementRefused(r) PROVE LogTyped' /\ Len(log) <= Len(log') /\
  lastRow <= lastRow'
  BY <1>9, CatalogueAssumption DEF ReplacementRefused, storeVars, TypeOK, LogTyped
<1>10. ASSUME NEW r \in Requests, NEW o \in Outcomes, ReplacementRecorded(r, o) PROVE LogTyped' /\
  Len(log) <= Len(log') /\ lastRow <= lastRow'
  <2>1. req[r].op # None /\ \E out : Record(r, out)
    BY <1>10, CatalogueAssumption DEF InProgress, Routing, Kinds, ReplacementRecorded
  <2>2. /\ log' \in Seq(Entries) /\ Len(log) <= Len(log')
        /\ \A i \in 1 .. Len(log') : log'[i].row \in 0 .. lastRow
    BY <2>1, RequestFacts, RecordTyped
  <2>3. \A row \in reported' : row \in Nat /\ 0 < row /\ row <= lastRow
    BY <1>10, <2>1, CatalogueAssumption, RequestFacts DEF TypeOK, LogTyped, RequestKnows,
      InProgress, ReplacementRecorded, Report, Return
  <2> QED BY <1>10, <2>2, <2>3 DEF storeVars, TypeOK, LogTyped, storeVars, ReplacementRecorded
<1>11. ASSUME NEW r \in Requests, NEW b \in Bindings, NEW kind \in Routing, BindingBegins(r, b,
  kind) PROVE LogTyped' /\ Len(log) <= Len(log') /\ lastRow <= lastRow'
  BY <1>11, CatalogueAssumption DEF BindingBegins, storeVars, TypeOK, LogTyped
<1>12. ASSUME NEW r \in Requests, NEW o \in Outcomes, BindingRecorded(r, o) PROVE LogTyped' /\
  Len(log) <= Len(log') /\ lastRow <= lastRow'
  <2>1. req[r].op # None /\ \E out : Record(r, out)
    BY <1>12, CatalogueAssumption DEF InProgress, Routing, Kinds, BindingRecorded
  <2>2. /\ log' \in Seq(Entries) /\ Len(log) <= Len(log')
        /\ \A i \in 1 .. Len(log') : log'[i].row \in 0 .. lastRow
    BY <2>1, RequestFacts, RecordTyped
  <2>3. \A row \in reported' : row \in Nat /\ 0 < row /\ row <= lastRow
    BY <1>12, <2>1, CatalogueAssumption, RequestFacts DEF TypeOK, LogTyped, RequestKnows,
      InProgress, BindingRecorded, Return
  <2> QED BY <1>12, <2>2, <2>3 DEF storeVars, TypeOK, LogTyped, storeVars, BindingRecorded
<1>13. ASSUME NEW r \in Requests, BindingAnswered(r) PROVE LogTyped' /\ Len(log) <= Len(log') /\
  lastRow <= lastRow'
  BY <1>13, CatalogueAssumption DEF BindingAnswered, storeVars, TypeOK, LogTyped
<1>14. ASSUME NEW r \in Requests, NEW q \in Pipelines, NEW n \in Names, WorkspaceBegins(r, q, n)
  PROVE LogTyped' /\ Len(log) <= Len(log') /\ lastRow <= lastRow'
  BY <1>14, CatalogueAssumption DEF WorkspaceBegins, storeVars, TypeOK, LogTyped
<1>15. ASSUME NEW r \in Requests, WorkspaceWritten(r) PROVE LogTyped' /\ Len(log) <= Len(log') /\
  lastRow <= lastRow'
  <2>1. lastRow' = lastRow + 1 /\ rows' = rows \cup {lastRow + 1}
    BY <1>15, WriteEffect DEF WorkspaceWritten
  <2>2. log' = log /\ reported' = reported
    BY <1>15 DEF WorkspaceWritten
  <2>3. \A row \in rows' : row \in Nat /\ 0 < row /\ row <= lastRow'
    BY <2>1 DEF TypeOK, LogTyped
  <2>4. \A row \in reported' : row \in Nat /\ 0 < row /\ row <= lastRow'
    BY <2>1, <2>2 DEF TypeOK, LogTyped
  <2>5. \A i \in DOMAIN log' : log'[i].row \in 0 .. lastRow'
    BY <2>1, <2>2 DEF TypeOK, LogTyped, Entries
  <2>6. lastRow' \in Nat /\ log' \in Seq(Entries) /\ Len(log) <= Len(log') /\ lastRow <= lastRow'
    BY <2>1, <2>2 DEF TypeOK, LogTyped
  <2> QED BY <2>3, <2>4, <2>5, <2>6 DEF LogTyped
<1>16. ASSUME NEW r \in Requests, WorkspaceRefused(r) PROVE LogTyped' /\ Len(log) <= Len(log') /\
  lastRow <= lastRow'
  BY <1>16, CatalogueAssumption DEF WorkspaceRefused, storeVars, TypeOK, LogTyped
<1>17. ASSUME NEW r \in Requests, NEW o \in Outcomes, WorkspaceRecorded(r, o) PROVE LogTyped' /\
  Len(log) <= Len(log') /\ lastRow <= lastRow'
  <2>1. req[r].op # None /\ \E out : Record(r, out)
    BY <1>17, CatalogueAssumption DEF InProgress, Routing, Kinds, WorkspaceRecorded
  <2>2. /\ log' \in Seq(Entries) /\ Len(log) <= Len(log')
        /\ \A i \in 1 .. Len(log') : log'[i].row \in 0 .. lastRow
    BY <2>1, RequestFacts, RecordTyped
  <2>3. \A row \in reported' : row \in Nat /\ 0 < row /\ row <= lastRow
    BY <1>17, <2>1, CatalogueAssumption, RequestFacts DEF TypeOK, LogTyped, RequestKnows,
      InProgress, WorkspaceRecorded, Return
  <2> QED BY <1>17, <2>2, <2>3 DEF storeVars, TypeOK, LogTyped, storeVars, WorkspaceRecorded
<1>18. ASSUME NEW r \in Requests, NEW fails \in BOOLEAN, WorkspaceCleaned(r, fails) PROVE LogTyped'
  /\ Len(log) <= Len(log') /\ lastRow <= lastRow'
  <2>1. req[r].row \in Nat /\ 0 < req[r].row /\ req[r].row <= lastRow
    BY <1>18 DEF WorkspaceCleaned, InProgress, RequestKnows, TypeOK, LogTyped, Routing
  <2> QED BY <1>18, <2>1 DEF storeVars, TypeOK, LogTyped, WorkspaceCleaned, Report
<1>19. CASE Handle
  BY <1>19, CatalogueAssumption DEF Handle, storeVars, TypeOK, LogTyped
<1>20. CASE Reconnect
  BY <1>20, CatalogueAssumption DEF Reconnect, storeVars, TypeOK, LogTyped
<1>21. CASE UNCHANGED vars
  BY <1>21, CatalogueAssumption DEF vars, storeVars, identityVars, projectionVars, storeVars,
    TypeOK, LogTyped
<1> QED BY <1>1, <1>2, <1>3, <1>4, <1>5, <1>6, <1>7, <1>8, <1>9, <1>10, <1>11, <1>12, <1>13, <1>14,
  <1>15, <1>16, <1>17, <1>18, <1>19, <1>20, <1>21 DEF Next, CreateCategory, CreatePackage,
  ReplaceGeometry, ChangeBinding, AddWorkspace
-----------------------------------------------------------------------------
LEMMA IdentityTypedNext ==
  ASSUME TypeOK, LogKnows, CategoriesOnce, [Next]_vars PROVE IdentityTyped'
<1>1. ASSUME NEW r \in Requests, NEW c \in Categories, NEW x \in Prefixes, CategoryChecked(r, c, x)
  PROVE IdentityTyped'
  BY <1>1, CatalogueAssumption DEF CategoryChecked, storeVars, identityVars, TypeOK, IdentityTyped
<1>2. ASSUME NEW r \in Requests, NEW o \in Outcomes, CategoryRecorded(r, o) PROVE IdentityTyped'
  BY <1>2, CatalogueAssumption DEF CategoryRecorded, storeVars, identityVars, TypeOK, IdentityTyped
<1>3. ASSUME NEW r \in Requests, NEW p \in Packages, NEW c \in Categories, NEW published \in
  BOOLEAN, NEW id \in ShortIds, PackageBegins(r, p, c, published, id) PROVE IdentityTyped'
  <2>1. log[Last(At({"category"}, c))].value \in Prefixes
    BY <1>3, CategoryPrefix DEF PackageBegins
  <2> DEFINE x == log[Last(At({"category"}, c))].value
  <2>2. PICK n \in 0 .. MaxNumber : id = <<x, n>> /\ (next' = next \/ (n \in next[x] .. MaxNumber /\ next' = [next EXCEPT ![x] = n + 1]))
    BY <1>3 DEF PackageBegins, Reserve, Generated, ShortIds
  <2>3. taken' = taken \cup {id}
    BY <1>3 DEF PackageBegins, Reserve
  <2> HIDE DEF x
  <2> QED BY <2>1, <2>2, <2>3, CatalogueAssumption DEF storeVars, identityVars, TypeOK,
    IdentityTyped, ShortIds, x
<1>4. ASSUME NEW r \in Requests, PackageWritten(r) PROVE IdentityTyped'
  BY <1>4, CatalogueAssumption DEF PackageWritten, storeVars, identityVars, TypeOK, IdentityTyped
<1>5. ASSUME NEW r \in Requests, PackageRefused(r) PROVE IdentityTyped'
  BY <1>5, CatalogueAssumption DEF PackageRefused, Released, storeVars, identityVars, TypeOK,
    IdentityTyped
<1>6. ASSUME NEW r \in Requests, NEW o \in Outcomes, PackageRecorded(r, o) PROVE IdentityTyped'
  BY <1>6, CatalogueAssumption DEF PackageRecorded, Released, storeVars, identityVars, TypeOK,
    IdentityTyped
<1>7. ASSUME NEW r \in Requests, NEW p \in Packages, NEW h \in Hashes, ReplacementBegins(r, p, h)
  PROVE IdentityTyped'
  BY <1>7, CatalogueAssumption DEF ReplacementBegins, storeVars, identityVars, TypeOK, IdentityTyped
<1>8. ASSUME NEW r \in Requests, ReplacementWritten(r) PROVE IdentityTyped'
  BY <1>8, CatalogueAssumption DEF ReplacementWritten, storeVars, identityVars, TypeOK,
    IdentityTyped
<1>9. ASSUME NEW r \in Requests, ReplacementRefused(r) PROVE IdentityTyped'
  BY <1>9, CatalogueAssumption DEF ReplacementRefused, storeVars, identityVars, TypeOK,
    IdentityTyped
<1>10. ASSUME NEW r \in Requests, NEW o \in Outcomes, ReplacementRecorded(r, o) PROVE IdentityTyped'
  BY <1>10, CatalogueAssumption DEF ReplacementRecorded, storeVars, identityVars, TypeOK,
    IdentityTyped
<1>11. ASSUME NEW r \in Requests, NEW b \in Bindings, NEW kind \in Routing, BindingBegins(r, b,
  kind) PROVE IdentityTyped'
  BY <1>11, CatalogueAssumption DEF BindingBegins, storeVars, identityVars, TypeOK, IdentityTyped
<1>12. ASSUME NEW r \in Requests, NEW o \in Outcomes, BindingRecorded(r, o) PROVE IdentityTyped'
  BY <1>12, CatalogueAssumption DEF BindingRecorded, storeVars, identityVars, TypeOK, IdentityTyped
<1>13. ASSUME NEW r \in Requests, BindingAnswered(r) PROVE IdentityTyped'
  BY <1>13, CatalogueAssumption DEF BindingAnswered, storeVars, identityVars, TypeOK, IdentityTyped
<1>14. ASSUME NEW r \in Requests, NEW q \in Pipelines, NEW n \in Names, WorkspaceBegins(r, q, n)
  PROVE IdentityTyped'
  BY <1>14, CatalogueAssumption DEF WorkspaceBegins, storeVars, identityVars, TypeOK, IdentityTyped
<1>15. ASSUME NEW r \in Requests, WorkspaceWritten(r) PROVE IdentityTyped'
  BY <1>15, CatalogueAssumption DEF WorkspaceWritten, storeVars, identityVars, TypeOK, IdentityTyped
<1>16. ASSUME NEW r \in Requests, WorkspaceRefused(r) PROVE IdentityTyped'
  BY <1>16, CatalogueAssumption DEF WorkspaceRefused, storeVars, identityVars, TypeOK, IdentityTyped
<1>17. ASSUME NEW r \in Requests, NEW o \in Outcomes, WorkspaceRecorded(r, o) PROVE IdentityTyped'
  BY <1>17, CatalogueAssumption DEF WorkspaceRecorded, storeVars, identityVars, TypeOK,
    IdentityTyped
<1>18. ASSUME NEW r \in Requests, NEW fails \in BOOLEAN, WorkspaceCleaned(r, fails) PROVE
  IdentityTyped'
  BY <1>18, CatalogueAssumption DEF WorkspaceCleaned, storeVars, identityVars, TypeOK, IdentityTyped
<1>19. CASE Handle
  BY <1>19, CatalogueAssumption DEF Handle, storeVars, identityVars, TypeOK, IdentityTyped
<1>20. CASE Reconnect
  BY <1>20, CatalogueAssumption DEF Reconnect, storeVars, identityVars, TypeOK, IdentityTyped
<1>21. CASE UNCHANGED vars
  BY <1>21, CatalogueAssumption DEF vars, storeVars, identityVars, projectionVars, storeVars,
    identityVars, TypeOK, IdentityTyped
<1> QED BY <1>1, <1>2, <1>3, <1>4, <1>5, <1>6, <1>7, <1>8, <1>9, <1>10, <1>11, <1>12, <1>13, <1>14,
  <1>15, <1>16, <1>17, <1>18, <1>19, <1>20, <1>21 DEF Next, CreateCategory, CreatePackage,
  ReplaceGeometry, ChangeBinding, AddWorkspace
-----------------------------------------------------------------------------

LEMMA IndexTyped ==
  ASSUME TypeOK, NEW b \in Bindings, NEW a \in BOOLEAN, NEW n \in 1 .. Len(log), Update(b, a, n)
  PROVE  /\ index' \in [Bindings -> [active : BOOLEAN, at : Nat]]
         /\ \A x \in Bindings : index'[x].at <= Len(log)
<1>0. Len(log) \in Nat /\ n \in Nat
  BY DEF TypeOK, LogTyped
<1>1. index' = index \/ index' = [index EXCEPT ![b] = [active |-> a, at |-> n]]
  BY DEF Update
<1>2. index' \in [Bindings -> [active : BOOLEAN, at : Nat]]
  BY <1>0, <1>1 DEF TypeOK, ListingTyped
<1>3. \A x \in Bindings : index'[x].at <= Len(log)
  BY <1>0, <1>1, SMTT(30) DEF TypeOK, ListingTyped
<1> QED BY <1>2, <1>3

LEMMA ListedTyped ==
  ASSUME TypeOK, NEW e \in Entries, e.row \in 0 .. lastRow,
         listed' = listed \/ listed' = [listed EXCEPT ![e.key] = e.row]
  PROVE  listed' \in [Packages -> Nat] /\ \A p \in Packages : listed'[p] <= lastRow
<1>0. lastRow \in Nat /\ e.row \in Nat /\ e.row <= lastRow
  BY DEF TypeOK, LogTyped
<1> QED BY <1>0 DEF TypeOK, ListingTyped
-----------------------------------------------------------------------------
LEMMA ListingTypedNext ==
  ASSUME TypeOK, RequestKnows, LogKnows, PositionsKnown, [Next]_vars PROVE ListingTyped'
<1>1. ASSUME NEW r \in Requests, NEW c \in Categories, NEW x \in Prefixes, CategoryChecked(r, c, x)
  PROVE ListingTyped'
  BY <1>1, CatalogueAssumption, LogTypedNext DEF CategoryChecked, storeVars, projectionVars, TypeOK,
    LogTyped, ListingTyped
<1>2. ASSUME NEW r \in Requests, NEW o \in Outcomes, CategoryRecorded(r, o) PROVE ListingTyped'
  BY <1>2, CatalogueAssumption, LogTypedNext DEF CategoryRecorded, storeVars, projectionVars,
    TypeOK, LogTyped, ListingTyped
<1>3. ASSUME NEW r \in Requests, NEW p \in Packages, NEW c \in Categories, NEW published \in
  BOOLEAN, NEW id \in ShortIds, PackageBegins(r, p, c, published, id) PROVE ListingTyped'
  BY <1>3, CatalogueAssumption, LogTypedNext DEF PackageBegins, storeVars, projectionVars, TypeOK,
    LogTyped, ListingTyped
<1>4. ASSUME NEW r \in Requests, PackageWritten(r) PROVE ListingTyped'
  BY <1>4, CatalogueAssumption, LogTypedNext DEF PackageWritten, storeVars, projectionVars, TypeOK,
    LogTyped, ListingTyped
<1>5. ASSUME NEW r \in Requests, PackageRefused(r) PROVE ListingTyped'
  BY <1>5, CatalogueAssumption, LogTypedNext DEF PackageRefused, storeVars, projectionVars, TypeOK,
    LogTyped, ListingTyped
<1>6. ASSUME NEW r \in Requests, NEW o \in Outcomes, PackageRecorded(r, o) PROVE ListingTyped'
  BY <1>6, CatalogueAssumption, LogTypedNext DEF PackageRecorded, storeVars, projectionVars, TypeOK,
    LogTyped, ListingTyped
<1>7. ASSUME NEW r \in Requests, NEW p \in Packages, NEW h \in Hashes, ReplacementBegins(r, p, h)
  PROVE ListingTyped'
  BY <1>7, CatalogueAssumption, LogTypedNext DEF ReplacementBegins, storeVars, projectionVars,
    TypeOK, LogTyped, ListingTyped
<1>8. ASSUME NEW r \in Requests, ReplacementWritten(r) PROVE ListingTyped'
  BY <1>8, CatalogueAssumption, LogTypedNext DEF ReplacementWritten, storeVars, projectionVars,
    TypeOK, LogTyped, ListingTyped
<1>9. ASSUME NEW r \in Requests, ReplacementRefused(r) PROVE ListingTyped'
  BY <1>9, CatalogueAssumption, LogTypedNext DEF ReplacementRefused, storeVars, projectionVars,
    TypeOK, LogTyped, ListingTyped
<1>10. ASSUME NEW r \in Requests, NEW o \in Outcomes, ReplacementRecorded(r, o) PROVE ListingTyped'
  BY <1>10, CatalogueAssumption, LogTypedNext DEF ReplacementRecorded, storeVars, projectionVars,
    TypeOK, LogTyped, ListingTyped
<1>11. ASSUME NEW r \in Requests, NEW b \in Bindings, NEW kind \in Routing, BindingBegins(r, b,
  kind) PROVE ListingTyped'
  BY <1>11, CatalogueAssumption, LogTypedNext DEF BindingBegins, storeVars, projectionVars, TypeOK,
    LogTyped, ListingTyped
<1>12. ASSUME NEW r \in Requests, NEW o \in Outcomes, BindingRecorded(r, o) PROVE ListingTyped'
  BY <1>12, CatalogueAssumption, LogTypedNext DEF BindingRecorded, storeVars, projectionVars,
    TypeOK, LogTyped, ListingTyped
<1>13. ASSUME NEW r \in Requests, BindingAnswered(r) PROVE ListingTyped'
  <2>1. req[r].key \in Bindings /\ req[r].row \in 1 .. Len(log)
    BY <1>13 DEF BindingAnswered, RequestKnows, PositionsKnown, TypeOK, LogTyped
  <2>2. (req[r].op = "bound") \in BOOLEAN
    OBVIOUS
  <2>3. /\ index' \in [Bindings -> [active : BOOLEAN, at : Nat]]
        /\ \A x \in Bindings : index'[x].at <= Len(log)
    BY <1>13, <2>1, <2>2, IndexTyped, Zenon DEF BindingAnswered
  <2> QED BY <1>13, <2>1, <2>3, LogTypedNext DEF storeVars, projectionVars, TypeOK, LogTyped,
    ListingTyped, BindingAnswered
<1>14. ASSUME NEW r \in Requests, NEW q \in Pipelines, NEW n \in Names, WorkspaceBegins(r, q, n)
  PROVE ListingTyped'
  BY <1>14, CatalogueAssumption, LogTypedNext DEF WorkspaceBegins, storeVars, projectionVars,
    TypeOK, LogTyped, ListingTyped
<1>15. ASSUME NEW r \in Requests, WorkspaceWritten(r) PROVE ListingTyped'
  BY <1>15, CatalogueAssumption, LogTypedNext DEF WorkspaceWritten, storeVars, projectionVars,
    TypeOK, LogTyped, ListingTyped
<1>16. ASSUME NEW r \in Requests, WorkspaceRefused(r) PROVE ListingTyped'
  BY <1>16, CatalogueAssumption, LogTypedNext DEF WorkspaceRefused, storeVars, projectionVars,
    TypeOK, LogTyped, ListingTyped
<1>17. ASSUME NEW r \in Requests, NEW o \in Outcomes, WorkspaceRecorded(r, o) PROVE ListingTyped'
  BY <1>17, CatalogueAssumption, LogTypedNext DEF WorkspaceRecorded, storeVars, projectionVars,
    TypeOK, LogTyped, ListingTyped
<1>18. ASSUME NEW r \in Requests, NEW fails \in BOOLEAN, WorkspaceCleaned(r, fails) PROVE
  ListingTyped'
  BY <1>18, CatalogueAssumption, LogTypedNext DEF WorkspaceCleaned, storeVars, projectionVars,
    TypeOK, LogTyped, ListingTyped
<1>19. CASE Handle
  <2> DEFINE e == log[position + 1]
  <2>1. /\ position' = position + 1 /\ position' \in 1 .. Len(log)
        /\ log' = log /\ acked' = acked /\ lastRow' = lastRow
    BY <1>19 DEF Handle, TypeOK, LogTyped, ListingTyped, storeVars
  <2>2. /\ e \in Entries /\ e.row \in 0 .. lastRow
        /\ e.kind \in Routing => e.key \in Bindings
        /\ e.kind = "category" => e.value \in Prefixes
    BY <2>1 DEF TypeOK, LogTyped, LogKnows
  <2>3. IF e.kind \in Routing THEN Update(e.key, e.kind = "bound", position + 1) ELSE index' = index
    BY <1>19, <2>1, Zenon DEF Handle
  <2>4. prefixes' = prefixes \/ (e.kind = "category" /\ prefixes' = prefixes \cup {e.value})
    BY <1>19, <2>1 DEF Handle
  <2>5. listed' = listed \/ listed' = [listed EXCEPT ![e.key] = e.row]
    BY <1>19, <2>1 DEF Handle
  <2> HIDE DEF e
  <2>6. listed' \in [Packages -> Nat] /\ \A p \in Packages : listed'[p] <= lastRow
    BY <2>2, <2>5, ListedTyped
  <2>7. (e.kind = "bound") \in BOOLEAN /\ position + 1 \in 1 .. Len(log)
    BY <2>1
  <2>8. /\ index' \in [Bindings -> [active : BOOLEAN, at : Nat]]
        /\ \A x \in Bindings : index'[x].at <= Len(log)
    <3>1. CASE e.kind \in Routing
      BY <2>2, <2>3, <2>7, <3>1, IndexTyped, Zenon
    <3>2. CASE e.kind \notin Routing
      BY <2>3, <3>2 DEF TypeOK, ListingTyped
    <3> QED BY <3>1, <3>2
  <2>9. prefixes' \subseteq Prefixes
    BY <2>2, <2>4 DEF TypeOK, ListingTyped
  <2> QED BY <2>1, <2>6, <2>8, <2>9 DEF storeVars, projectionVars, TypeOK, LogTyped, ListingTyped
<1>20. CASE Reconnect
  BY <1>20, CatalogueAssumption, LogTypedNext DEF Reconnect, Start, storeVars, projectionVars,
    TypeOK, LogTyped, ListingTyped
<1>21. CASE UNCHANGED vars
  BY <1>21, CatalogueAssumption, LogTypedNext DEF vars, storeVars, identityVars, projectionVars,
    storeVars, projectionVars, TypeOK, LogTyped, ListingTyped
<1> QED BY <1>1, <1>2, <1>3, <1>4, <1>5, <1>6, <1>7, <1>8, <1>9, <1>10, <1>11, <1>12, <1>13, <1>14,
  <1>15, <1>16, <1>17, <1>18, <1>19, <1>20, <1>21 DEF Next, CreateCategory, CreatePackage,
  ReplaceGeometry, ChangeBinding, AddWorkspace
-----------------------------------------------------------------------------
LEMMA RequestTypedNext ==
  ASSUME TypeOK, RequestKnows, [Next]_vars PROVE RequestTyped'
<1>1. ASSUME NEW r \in Requests, NEW c \in Categories, NEW x \in Prefixes, CategoryChecked(r, c, x)
  PROVE RequestTyped'
  BY <1>1, CatalogueAssumption DEF CategoryChecked, Begin, storeVars, TypeOK, RequestTyped,
    NoRequest, Kinds, Steps, Keys, Values, Routing
<1>2. ASSUME NEW r \in Requests, NEW o \in Outcomes, CategoryRecorded(r, o) PROVE RequestTyped'
  BY <1>2, CatalogueAssumption DEF CategoryRecorded, Return, storeVars, TypeOK, RequestTyped,
    NoRequest, Kinds, Steps, Keys, Values, Routing
<1>3. ASSUME NEW r \in Requests, NEW p \in Packages, NEW c \in Categories, NEW published \in
  BOOLEAN, NEW id \in ShortIds, PackageBegins(r, p, c, published, id) PROVE RequestTyped'
  BY <1>3, CatalogueAssumption DEF PackageBegins, Begin, Reserve, storeVars, TypeOK, RequestTyped,
    NoRequest, Kinds, Steps, Keys, Values, Routing
<1>4. ASSUME NEW r \in Requests, PackageWritten(r) PROVE RequestTyped'
  <2>1. req' = [req EXCEPT ![r] = [@ EXCEPT !.step = "written", !.row = lastRow + 1]]
    BY <1>4, WriteEffect DEF PackageWritten
  <2> DEFINE n == lastRow + 1
             Requesting == [op : Kinds \cup {None}, step : Steps \cup {None}, key : Keys \cup {None},
                            value : Values, row : Nat]
  <2>2. n \in Nat /\ "written" \in Steps /\ req[r] \in Requesting
    BY DEF TypeOK, LogTyped, RequestTyped, Steps
  <2> HIDE DEF n
  <2>3. [req[r] EXCEPT !.step = "written", !.row = n] \in Requesting
    BY <2>2
  <2> QED BY <2>1, <2>3 DEF TypeOK, RequestTyped, n
<1>5. ASSUME NEW r \in Requests, PackageRefused(r) PROVE RequestTyped'
  BY <1>5, CatalogueAssumption DEF PackageRefused, Return, storeVars, TypeOK, RequestTyped,
    NoRequest, Kinds, Steps, Keys, Values, Routing
<1>6. ASSUME NEW r \in Requests, NEW o \in Outcomes, PackageRecorded(r, o) PROVE RequestTyped'
  BY <1>6, CatalogueAssumption DEF PackageRecorded, Return, storeVars, TypeOK, RequestTyped,
    NoRequest, Kinds, Steps, Keys, Values, Routing
<1>7. ASSUME NEW r \in Requests, NEW p \in Packages, NEW h \in Hashes, ReplacementBegins(r, p, h)
  PROVE RequestTyped'
  BY <1>7, CatalogueAssumption DEF ReplacementBegins, Begin, storeVars, TypeOK, RequestTyped,
    NoRequest, Kinds, Steps, Keys, Values, Routing
<1>8. ASSUME NEW r \in Requests, ReplacementWritten(r) PROVE RequestTyped'
  <2>1. req' = [req EXCEPT ![r] = [@ EXCEPT !.step = "written", !.row = lastRow + 1]]
    BY <1>8, WriteEffect DEF ReplacementWritten
  <2> DEFINE n == lastRow + 1
             Requesting == [op : Kinds \cup {None}, step : Steps \cup {None}, key : Keys \cup {None},
                            value : Values, row : Nat]
  <2>2. n \in Nat /\ "written" \in Steps /\ req[r] \in Requesting
    BY DEF TypeOK, LogTyped, RequestTyped, Steps
  <2> HIDE DEF n
  <2>3. [req[r] EXCEPT !.step = "written", !.row = n] \in Requesting
    BY <2>2
  <2> QED BY <2>1, <2>3 DEF TypeOK, RequestTyped, n
<1>9. ASSUME NEW r \in Requests, ReplacementRefused(r) PROVE RequestTyped'
  BY <1>9, CatalogueAssumption DEF ReplacementRefused, Return, storeVars, TypeOK, RequestTyped,
    NoRequest, Kinds, Steps, Keys, Values, Routing
<1>10. ASSUME NEW r \in Requests, NEW o \in Outcomes, ReplacementRecorded(r, o) PROVE RequestTyped'
  BY <1>10, CatalogueAssumption DEF ReplacementRecorded, Return, storeVars, TypeOK, RequestTyped,
    NoRequest, Kinds, Steps, Keys, Values, Routing
<1>11. ASSUME NEW r \in Requests, NEW b \in Bindings, NEW kind \in Routing, BindingBegins(r, b,
  kind) PROVE RequestTyped'
  BY <1>11, CatalogueAssumption DEF BindingBegins, Begin, storeVars, TypeOK, RequestTyped,
    NoRequest, Kinds, Steps, Keys, Values, Routing
<1>12. ASSUME NEW r \in Requests, NEW o \in Outcomes, BindingRecorded(r, o) PROVE RequestTyped'
  BY <1>12, CatalogueAssumption DEF BindingRecorded, Return, storeVars, TypeOK, RequestTyped,
    NoRequest, Kinds, Steps, Keys, Values, Routing
<1>13. ASSUME NEW r \in Requests, BindingAnswered(r) PROVE RequestTyped'
  BY <1>13, CatalogueAssumption DEF BindingAnswered, Return, storeVars, TypeOK, RequestTyped,
    NoRequest, Kinds, Steps, Keys, Values, Routing
<1>14. ASSUME NEW r \in Requests, NEW q \in Pipelines, NEW n \in Names, WorkspaceBegins(r, q, n)
  PROVE RequestTyped'
  BY <1>14, CatalogueAssumption DEF WorkspaceBegins, Begin, storeVars, TypeOK, RequestTyped,
    NoRequest, Kinds, Steps, Keys, Values, Routing
<1>15. ASSUME NEW r \in Requests, WorkspaceWritten(r) PROVE RequestTyped'
  <2>1. req' = [req EXCEPT ![r] = [@ EXCEPT !.step = "written", !.row = lastRow + 1]]
    BY <1>15, WriteEffect DEF WorkspaceWritten
  <2> DEFINE n == lastRow + 1
             Requesting == [op : Kinds \cup {None}, step : Steps \cup {None}, key : Keys \cup {None},
                            value : Values, row : Nat]
  <2>2. n \in Nat /\ "written" \in Steps /\ req[r] \in Requesting
    BY DEF TypeOK, LogTyped, RequestTyped, Steps
  <2> HIDE DEF n
  <2>3. [req[r] EXCEPT !.step = "written", !.row = n] \in Requesting
    BY <2>2
  <2> QED BY <2>1, <2>3 DEF TypeOK, RequestTyped, n
<1>16. ASSUME NEW r \in Requests, WorkspaceRefused(r) PROVE RequestTyped'
  BY <1>16, CatalogueAssumption DEF WorkspaceRefused, Return, storeVars, TypeOK, RequestTyped,
    NoRequest, Kinds, Steps, Keys, Values, Routing
<1>17. ASSUME NEW r \in Requests, NEW o \in Outcomes, WorkspaceRecorded(r, o) PROVE RequestTyped'
  BY <1>17, CatalogueAssumption DEF WorkspaceRecorded, Return, storeVars, TypeOK, RequestTyped,
    NoRequest, Kinds, Steps, Keys, Values, Routing
<1>18. ASSUME NEW r \in Requests, NEW fails \in BOOLEAN, WorkspaceCleaned(r, fails) PROVE
  RequestTyped'
  BY <1>18, CatalogueAssumption DEF WorkspaceCleaned, Return, storeVars, TypeOK, RequestTyped,
    NoRequest, Kinds, Steps, Keys, Values, Routing
<1>19. CASE Handle
  BY <1>19, CatalogueAssumption DEF Handle, storeVars, TypeOK, RequestTyped, NoRequest, Kinds,
    Steps, Keys, Values, Routing
<1>20. CASE Reconnect
  BY <1>20, CatalogueAssumption DEF Reconnect, Start, storeVars, TypeOK, RequestTyped, NoRequest,
    Kinds, Steps, Keys, Values, Routing
<1>21. CASE UNCHANGED vars
  BY <1>21, CatalogueAssumption DEF vars, storeVars, identityVars, projectionVars, storeVars,
    TypeOK, RequestTyped, NoRequest, Kinds, Steps, Keys, Values, Routing
<1> QED BY <1>1, <1>2, <1>3, <1>4, <1>5, <1>6, <1>7, <1>8, <1>9, <1>10, <1>11, <1>12, <1>13, <1>14,
  <1>15, <1>16, <1>17, <1>18, <1>19, <1>20, <1>21 DEF Next, CreateCategory, CreatePackage,
  ReplaceGeometry, ChangeBinding, AddWorkspace

\* The requests that record something, and what becomes of the log.
LEMMA RecordedOrNot ==
  ASSUME TypeOK, RequestKnows, NEW r \in Requests, NEW o, Record(r, o), req[r].op # None
  PROVE  IF o = "refused" THEN log' = log ELSE Recorded(r)
BY RequestFacts, RecordEffect
-----------------------------------------------------------------------------
LEMMA GatesNext ==
  ASSUME IInv, TypeOK', [Next]_vars PROVE GatesHeld'
<1>1. ASSUME NEW r \in Requests, NEW c \in Categories, NEW x \in Prefixes, CategoryChecked(r, c, x)
  PROVE GatesHeld'
  BY <1>1, CatalogueAssumption DEF CategoryChecked, Begin, IInv, TypeOK, RequestTyped, GatesHeld,
    GateFree, InProgress, NoRequest, Idle, Kinds, Routing
<1>2. ASSUME NEW r \in Requests, NEW o \in Outcomes, CategoryRecorded(r, o) PROVE GatesHeld'
  BY <1>2, CatalogueAssumption DEF CategoryRecorded, Return, IInv, TypeOK, RequestTyped, GatesHeld,
    GateFree, InProgress, NoRequest, Idle, Kinds, Routing
<1>3. ASSUME NEW r \in Requests, NEW p \in Packages, NEW c \in Categories, NEW published \in
  BOOLEAN, NEW id \in ShortIds, PackageBegins(r, p, c, published, id) PROVE GatesHeld'
  BY <1>3, CatalogueAssumption DEF PackageBegins, Begin, IInv, TypeOK, RequestTyped, GatesHeld,
    GateFree, InProgress, NoRequest, Idle, Kinds, Routing
<1>4. ASSUME NEW r \in Requests, PackageWritten(r) PROVE GatesHeld'
  <2>1. /\ lastRow' = lastRow + 1 /\ rows' = rows \cup {lastRow + 1}
        /\ req' = [req EXCEPT ![r] = [@ EXCEPT !.step = "written", !.row = lastRow + 1]]
    BY <1>4, WriteEffect DEF IInv, PackageWritten
  <2> QED BY <1>4, <2>1 DEF IInv, TypeOK, RequestTyped, GatesHeld, GateFree, InProgress, NoRequest,
    Idle, Kinds, Routing, PackageWritten
<1>5. ASSUME NEW r \in Requests, PackageRefused(r) PROVE GatesHeld'
  BY <1>5, CatalogueAssumption DEF PackageRefused, Return, IInv, TypeOK, RequestTyped, GatesHeld,
    GateFree, InProgress, NoRequest, Idle, Kinds, Routing
<1>6. ASSUME NEW r \in Requests, NEW o \in Outcomes, PackageRecorded(r, o) PROVE GatesHeld'
  BY <1>6, CatalogueAssumption DEF PackageRecorded, Return, IInv, TypeOK, RequestTyped, GatesHeld,
    GateFree, InProgress, NoRequest, Idle, Kinds, Routing
<1>7. ASSUME NEW r \in Requests, NEW p \in Packages, NEW h \in Hashes, ReplacementBegins(r, p, h)
  PROVE GatesHeld'
  BY <1>7, CatalogueAssumption DEF ReplacementBegins, Begin, IInv, TypeOK, RequestTyped, GatesHeld,
    GateFree, InProgress, NoRequest, Idle, Kinds, Routing
<1>8. ASSUME NEW r \in Requests, ReplacementWritten(r) PROVE GatesHeld'
  <2>1. /\ lastRow' = lastRow + 1 /\ rows' = rows \cup {lastRow + 1}
        /\ req' = [req EXCEPT ![r] = [@ EXCEPT !.step = "written", !.row = lastRow + 1]]
    BY <1>8, WriteEffect DEF IInv, ReplacementWritten
  <2> QED BY <1>8, <2>1 DEF IInv, TypeOK, RequestTyped, GatesHeld, GateFree, InProgress, NoRequest,
    Idle, Kinds, Routing, ReplacementWritten
<1>9. ASSUME NEW r \in Requests, ReplacementRefused(r) PROVE GatesHeld'
  BY <1>9, CatalogueAssumption DEF ReplacementRefused, Return, IInv, TypeOK, RequestTyped,
    GatesHeld, GateFree, InProgress, NoRequest, Idle, Kinds, Routing
<1>10. ASSUME NEW r \in Requests, NEW o \in Outcomes, ReplacementRecorded(r, o) PROVE GatesHeld'
  BY <1>10, CatalogueAssumption DEF ReplacementRecorded, Return, IInv, TypeOK, RequestTyped,
    GatesHeld, GateFree, InProgress, NoRequest, Idle, Kinds, Routing
<1>11. ASSUME NEW r \in Requests, NEW b \in Bindings, NEW kind \in Routing, BindingBegins(r, b,
  kind) PROVE GatesHeld'
  BY <1>11, CatalogueAssumption DEF BindingBegins, Begin, IInv, TypeOK, RequestTyped, GatesHeld,
    GateFree, InProgress, NoRequest, Idle, Kinds, Routing
<1>12. ASSUME NEW r \in Requests, NEW o \in Outcomes, BindingRecorded(r, o) PROVE GatesHeld'
  <2>0. /\ req[r].op \in Routing
        /\ \/ req' = [req EXCEPT ![r] = [@ EXCEPT !.step = "recorded", !.row = Len(log')]]
           \/ req' = [req EXCEPT ![r] = NoRequest]
    BY <1>12, Zenon DEF BindingRecorded, Return
  <2>1. \A s \in Requests : s # r => req'[s] = req[s]
    BY <2>0 DEF IInv, TypeOK, RequestTyped
  <2>2. req'[r].op = req[r].op \/ req'[r].op = None
    <3>1. r \in DOMAIN req /\ DOMAIN req' = DOMAIN req
      BY <2>0 DEF IInv, TypeOK, RequestTyped
    <3>2. CASE req' = [req EXCEPT ![r] = [@ EXCEPT !.step = "recorded", !.row = Len(log')]]
      BY <3>1, <3>2 DEF IInv, TypeOK, RequestTyped
    <3>3. CASE req' = [req EXCEPT ![r] = NoRequest]
      BY <3>1, <3>3 DEF NoRequest
    <3> QED BY <2>0, <3>2, <3>3
  <2>3. req'[r].op \notin {"package", "geometry", "workspace"}
    BY <2>0, <2>2, CatalogueAssumption DEF Routing, Kinds
  <2> QED BY <2>1, <2>3 DEF IInv, GatesHeld
<1>13. ASSUME NEW r \in Requests, BindingAnswered(r) PROVE GatesHeld'
  BY <1>13, CatalogueAssumption DEF BindingAnswered, Return, IInv, TypeOK, RequestTyped, GatesHeld,
    GateFree, InProgress, NoRequest, Idle, Kinds, Routing
<1>14. ASSUME NEW r \in Requests, NEW q \in Pipelines, NEW n \in Names, WorkspaceBegins(r, q, n)
  PROVE GatesHeld'
  BY <1>14, CatalogueAssumption DEF WorkspaceBegins, Begin, IInv, TypeOK, RequestTyped, GatesHeld,
    GateFree, InProgress, NoRequest, Idle, Kinds, Routing
<1>15. ASSUME NEW r \in Requests, WorkspaceWritten(r) PROVE GatesHeld'
  <2>1. /\ lastRow' = lastRow + 1 /\ rows' = rows \cup {lastRow + 1}
        /\ req' = [req EXCEPT ![r] = [@ EXCEPT !.step = "written", !.row = lastRow + 1]]
    BY <1>15, WriteEffect DEF IInv, WorkspaceWritten
  <2> QED BY <1>15, <2>1 DEF IInv, TypeOK, RequestTyped, GatesHeld, GateFree, InProgress, NoRequest,
    Idle, Kinds, Routing, WorkspaceWritten
<1>16. ASSUME NEW r \in Requests, WorkspaceRefused(r) PROVE GatesHeld'
  BY <1>16, CatalogueAssumption DEF WorkspaceRefused, Return, IInv, TypeOK, RequestTyped, GatesHeld,
    GateFree, InProgress, NoRequest, Idle, Kinds, Routing
<1>17. ASSUME NEW r \in Requests, NEW o \in Outcomes, WorkspaceRecorded(r, o) PROVE GatesHeld'
  BY <1>17, CatalogueAssumption DEF WorkspaceRecorded, Return, IInv, TypeOK, RequestTyped,
    GatesHeld, GateFree, InProgress, NoRequest, Idle, Kinds, Routing
<1>18. ASSUME NEW r \in Requests, NEW fails \in BOOLEAN, WorkspaceCleaned(r, fails) PROVE GatesHeld'
  BY <1>18, CatalogueAssumption DEF WorkspaceCleaned, Return, IInv, TypeOK, RequestTyped, GatesHeld,
    GateFree, InProgress, NoRequest, Idle, Kinds, Routing
<1>19. CASE Handle
  BY <1>19, CatalogueAssumption DEF Handle, IInv, TypeOK, RequestTyped, GatesHeld, GateFree,
    InProgress, NoRequest, Idle, Kinds, Routing
<1>20. CASE Reconnect
  BY <1>20, CatalogueAssumption DEF Reconnect, Start, IInv, TypeOK, RequestTyped, GatesHeld,
    GateFree, InProgress, NoRequest, Idle, Kinds, Routing
<1>21. CASE UNCHANGED vars
  BY <1>21, CatalogueAssumption DEF vars, storeVars, identityVars, projectionVars, IInv, TypeOK,
    RequestTyped, GatesHeld, GateFree, InProgress, NoRequest, Idle, Kinds, Routing
<1> QED BY <1>1, <1>2, <1>3, <1>4, <1>5, <1>6, <1>7, <1>8, <1>9, <1>10, <1>11, <1>12, <1>13, <1>14,
  <1>15, <1>16, <1>17, <1>18, <1>19, <1>20, <1>21 DEF Next, CreateCategory, CreatePackage,
  ReplaceGeometry, ChangeBinding, AddWorkspace
-----------------------------------------------------------------------------
(* The log grows by what a request knows.                                  *)

Grown(r) ==
    /\ Recorded(r)
    /\ req[r].op \in Kinds
    /\ req[r].op = "category" => ~StreamExists("category", req[r].key)
    /\ req[r].op \in {"package", "geometry", "workspace"} => req[r].step = "written"

LogSteps == log' = log \/ \E r \in Requests : Grown(r)

-----------------------------------------------------------------------------
LEMMA LogGrows ==
  ASSUME TypeOK, RequestKnows, [Next]_vars PROVE LogSteps
<1>1. ASSUME NEW r \in Requests, NEW c \in Categories, NEW x \in Prefixes, CategoryChecked(r, c, x)
  PROVE LogSteps
  BY <1>1, CatalogueAssumption DEF CategoryChecked, LogSteps, storeVars, identityVars,
    projectionVars
<1>2. ASSUME NEW r \in Requests, NEW o \in Outcomes, CategoryRecorded(r, o) PROVE LogSteps
  <2>1. req[r].op # None /\ Record(r, IF StreamExists("category", req[r].key) THEN "refused" ELSE o)
    BY <1>2, CatalogueAssumption DEF InProgress, Kinds, Routing, CategoryRecorded
  <2>2. IF o = "refused" \/ StreamExists("category", req[r].key) THEN log' = log ELSE Recorded(r)
    BY <2>1, RecordedOrNot DEF IInv
  <2> QED BY <1>2, <2>2 DEF LogSteps, Grown, InProgress, Kinds, Routing, CategoryRecorded, Return
<1>3. ASSUME NEW r \in Requests, NEW p \in Packages, NEW c \in Categories, NEW published \in
  BOOLEAN, NEW id \in ShortIds, PackageBegins(r, p, c, published, id) PROVE LogSteps
  BY <1>3, CatalogueAssumption DEF PackageBegins, LogSteps, storeVars, identityVars, projectionVars
<1>4. ASSUME NEW r \in Requests, PackageWritten(r) PROVE LogSteps
  BY <1>4, CatalogueAssumption DEF PackageWritten, LogSteps, storeVars, identityVars, projectionVars
<1>5. ASSUME NEW r \in Requests, PackageRefused(r) PROVE LogSteps
  BY <1>5, CatalogueAssumption DEF PackageRefused, LogSteps, storeVars, identityVars, projectionVars
<1>6. ASSUME NEW r \in Requests, NEW o \in Outcomes, PackageRecorded(r, o) PROVE LogSteps
  <2>1. req[r].op # None /\ Record(r, o)
    BY <1>6, CatalogueAssumption DEF InProgress, Kinds, Routing, PackageRecorded
  <2>2. IF o = "refused" THEN log' = log ELSE Recorded(r)
    BY <2>1, RecordedOrNot DEF IInv
  <2> QED BY <1>6, <2>2 DEF LogSteps, Grown, InProgress, Kinds, Routing, PackageRecorded, Report,
    Return
<1>7. ASSUME NEW r \in Requests, NEW p \in Packages, NEW h \in Hashes, ReplacementBegins(r, p, h)
  PROVE LogSteps
  BY <1>7, CatalogueAssumption DEF ReplacementBegins, LogSteps, storeVars, identityVars,
    projectionVars
<1>8. ASSUME NEW r \in Requests, ReplacementWritten(r) PROVE LogSteps
  BY <1>8, CatalogueAssumption DEF ReplacementWritten, LogSteps, storeVars, identityVars,
    projectionVars
<1>9. ASSUME NEW r \in Requests, ReplacementRefused(r) PROVE LogSteps
  BY <1>9, CatalogueAssumption DEF ReplacementRefused, LogSteps, storeVars, identityVars,
    projectionVars
<1>10. ASSUME NEW r \in Requests, NEW o \in Outcomes, ReplacementRecorded(r, o) PROVE LogSteps
  <2>1. req[r].op # None /\ Record(r, o)
    BY <1>10, CatalogueAssumption DEF InProgress, Kinds, Routing, ReplacementRecorded
  <2>2. IF o = "refused" THEN log' = log ELSE Recorded(r)
    BY <2>1, RecordedOrNot DEF IInv
  <2> QED BY <1>10, <2>2 DEF LogSteps, Grown, InProgress, Kinds, Routing, ReplacementRecorded,
    Report, Return
<1>11. ASSUME NEW r \in Requests, NEW b \in Bindings, NEW kind \in Routing, BindingBegins(r, b,
  kind) PROVE LogSteps
  BY <1>11, CatalogueAssumption DEF BindingBegins, LogSteps, storeVars, identityVars, projectionVars
<1>12. ASSUME NEW r \in Requests, NEW o \in Outcomes, BindingRecorded(r, o) PROVE LogSteps
  <2>1. req[r].op # None /\ Record(r, o)
    BY <1>12, CatalogueAssumption DEF InProgress, Kinds, Routing, BindingRecorded
  <2>2. IF o = "refused" THEN log' = log ELSE Recorded(r)
    BY <2>1, RecordedOrNot DEF IInv
  <2> QED BY <1>12, <2>2 DEF LogSteps, Grown, InProgress, Kinds, Routing, BindingRecorded, Return
<1>13. ASSUME NEW r \in Requests, BindingAnswered(r) PROVE LogSteps
  BY <1>13, CatalogueAssumption DEF BindingAnswered, LogSteps, storeVars, identityVars,
    projectionVars
<1>14. ASSUME NEW r \in Requests, NEW q \in Pipelines, NEW n \in Names, WorkspaceBegins(r, q, n)
  PROVE LogSteps
  BY <1>14, CatalogueAssumption DEF WorkspaceBegins, LogSteps, storeVars, identityVars,
    projectionVars
<1>15. ASSUME NEW r \in Requests, WorkspaceWritten(r) PROVE LogSteps
  BY <1>15, CatalogueAssumption DEF WorkspaceWritten, LogSteps, storeVars, identityVars,
    projectionVars
<1>16. ASSUME NEW r \in Requests, WorkspaceRefused(r) PROVE LogSteps
  BY <1>16, CatalogueAssumption DEF WorkspaceRefused, LogSteps, storeVars, identityVars,
    projectionVars
<1>17. ASSUME NEW r \in Requests, NEW o \in Outcomes, WorkspaceRecorded(r, o) PROVE LogSteps
  <2>1. req[r].op # None /\ Record(r, o)
    BY <1>17, CatalogueAssumption DEF InProgress, Kinds, Routing, WorkspaceRecorded
  <2>2. IF o = "refused" THEN log' = log ELSE Recorded(r)
    BY <2>1, RecordedOrNot DEF IInv
  <2> QED BY <1>17, <2>2 DEF LogSteps, Grown, InProgress, Kinds, Routing, WorkspaceRecorded, Return
<1>18. ASSUME NEW r \in Requests, NEW fails \in BOOLEAN, WorkspaceCleaned(r, fails) PROVE LogSteps
  BY <1>18, CatalogueAssumption DEF WorkspaceCleaned, LogSteps, storeVars, identityVars,
    projectionVars
<1>19. CASE Handle
  BY <1>19, CatalogueAssumption DEF Handle, LogSteps, storeVars, identityVars, projectionVars
<1>20. CASE Reconnect
  BY <1>20, CatalogueAssumption DEF Reconnect, LogSteps, storeVars, identityVars, projectionVars
<1>21. CASE UNCHANGED vars
  BY <1>21, CatalogueAssumption DEF vars, storeVars, identityVars, projectionVars, LogSteps,
    storeVars, identityVars, projectionVars
<1> QED BY <1>1, <1>2, <1>3, <1>4, <1>5, <1>6, <1>7, <1>8, <1>9, <1>10, <1>11, <1>12, <1>13, <1>14,
  <1>15, <1>16, <1>17, <1>18, <1>19, <1>20, <1>21 DEF Next, CreateCategory, CreatePackage,
  ReplaceGeometry, ChangeBinding, AddWorkspace

LEMMA GrownLog ==
  ASSUME LogTyped, NEW r \in Requests, Grown(r)
  PROVE  /\ Len(log) \in Nat /\ Len(log') = Len(log) + 1
         /\ DOMAIN log = 1 .. Len(log) /\ DOMAIN log' = 1 .. Len(log) + 1
         /\ \A i \in DOMAIN log : i \in DOMAIN log' /\ log'[i] = log[i]
         /\ \A i \in DOMAIN log' : i \in DOMAIN log \/ i = Len(log) + 1
         /\ log'[Len(log) + 1].kind = req[r].op
         /\ log'[Len(log) + 1].key = req[r].key
         /\ log'[Len(log) + 1].value = req[r].value
         /\ log'[Len(log) + 1].row = IF req[r].op \in Routing THEN 0 ELSE req[r].row
BY DEF LogTyped, Grown, Recorded

LEMMA AtGrows ==
  ASSUME LogTyped, NEW r \in Requests, Grown(r), NEW kinds, NEW key
  PROVE  At(kinds, key)' = At(kinds, key) \cup
           (IF req[r].op \in kinds /\ req[r].key = key THEN {Len(log) + 1} ELSE {})
BY GrownLog DEF At

LEMMA LogKnowsNext ==
  ASSUME TypeOK, RequestKnows, LogKnows, [Next]_vars PROVE LogKnows'
<1>1. CASE log' = log
  BY <1>1 DEF LogKnows
<1>2. ASSUME NEW r \in Requests, Grown(r) PROVE LogKnows'
  <2> DEFINE q == req[r]
  <2>1. /\ q.op = "category" => q.key \in Categories /\ q.value \in Prefixes
        /\ q.op \in Areas => q.key \in Packages /\ q.row # 0
        /\ q.op \in Routing => q.key \in Bindings
    BY <1>2 DEF RequestKnows, Areas, Routing, Grown, TypeOK, LogTyped
  <2>2. q.op \in Areas => q.op \notin Routing
    BY DEF Areas, Routing
  <2> HIDE DEF q
  <2> QED BY <1>2, <2>1, <2>2, GrownLog DEF LogKnows, TypeOK, q
<1> QED BY <1>1, <1>2, LogGrows DEF LogSteps

LEMMA CategoriesNext ==
  ASSUME TypeOK, RequestKnows, CategoriesOnce, [Next]_vars PROVE CategoriesOnce'
<1>1. CASE log' = log
  BY <1>1 DEF CategoriesOnce
<1>2. ASSUME NEW r \in Requests, Grown(r) PROVE CategoriesOnce'
  <2>1. req[r].op = "category" => \A i \in DOMAIN log : log[i].kind = "category" => log[i].key # req[r].key
    BY <1>2 DEF Grown, StreamExists, At
  <2> QED BY <1>2, <2>1, GrownLog DEF CategoriesOnce, TypeOK
<1> QED BY <1>1, <1>2, LogGrows DEF LogSteps

LEMMA LastNext ==
  ASSUME TypeOK, RequestKnows, LastExists, [Next]_vars PROVE LastExists'
<1> SUFFICES ASSUME NEW p \in Packages, At(Areas, p)' # {}
             PROVE  \E i \in At(Areas, p)' : \A j \in At(Areas, p)' : j <= i
  BY DEF LastExists
<1>1. CASE log' = log
  BY <1>1 DEF LastExists, At
<1>2. ASSUME NEW r \in Requests, Grown(r)
      PROVE  \E i \in At(Areas, p)' : \A j \in At(Areas, p)' : j <= i
  <2>1. \A j \in At(Areas, p) : j \in 1 .. Len(log)
    BY DEF At, TypeOK, LogTyped
  <2>2. Len(log) \in Nat
    BY DEF TypeOK, LogTyped
  <2>3. CASE req[r].op \in Areas /\ req[r].key = p
    <3>1. At(Areas, p)' = At(Areas, p) \cup {Len(log) + 1}
      BY <1>2, <2>3, AtGrows DEF TypeOK
    <3>2. \A j \in At(Areas, p)' : j <= Len(log) + 1
      BY <2>1, <2>2, <3>1
    <3> QED BY <3>1, <3>2
  <2>4. CASE ~(req[r].op \in Areas /\ req[r].key = p)
    BY <1>2, <2>4, AtGrows DEF LastExists, TypeOK
  <2> QED BY <2>3, <2>4
<1> QED BY <1>1, <1>2, LogGrows DEF LogSteps
-----------------------------------------------------------------------------
LEMMA PositionsNext ==
  ASSUME TypeOK, RequestKnows, PositionsKnown, [Next]_vars PROVE PositionsKnown'
<1>1. ASSUME NEW r \in Requests, NEW c \in Categories, NEW x \in Prefixes, CategoryChecked(r, c, x)
  PROVE PositionsKnown'
  BY <1>1, CatalogueAssumption DEF CategoryChecked, Begin, TypeOK, LogTyped, RequestTyped,
    PositionsKnown, InProgress, NoRequest, Idle, Kinds, Routing, storeVars, identityVars,
    projectionVars
<1>2. ASSUME NEW r \in Requests, NEW o \in Outcomes, CategoryRecorded(r, o) PROVE PositionsKnown'
  <2>1. \E out : Record(r, out) /\ (out = o \/ out = "refused")
    BY <1>2 DEF CategoryRecorded
  <2>2. req[r].op # None
    BY <1>2, CatalogueAssumption DEF InProgress, Kinds, Routing, CategoryRecorded
  <2>3. log' = log \/ (Recorded(r) /\ Len(log') = Len(log) + 1 /\ req[r].op \in Kinds)
    BY <2>1, <2>2, RecordedOrNot, RequestFacts DEF Recorded
  <2>4. \A i \in DOMAIN log : i \in DOMAIN log' /\ log'[i] = log[i]
    BY <2>3 DEF TypeOK, LogTyped, Recorded
  <2> QED BY <1>2, <2>4 DEF TypeOK, LogTyped, RequestTyped, PositionsKnown, InProgress, NoRequest,
    Idle, Kinds, Routing, storeVars, identityVars, projectionVars, CategoryRecorded, Return
<1>3. ASSUME NEW r \in Requests, NEW p \in Packages, NEW c \in Categories, NEW published \in
  BOOLEAN, NEW id \in ShortIds, PackageBegins(r, p, c, published, id) PROVE PositionsKnown'
  BY <1>3, CatalogueAssumption DEF PackageBegins, Begin, TypeOK, LogTyped, RequestTyped,
    PositionsKnown, InProgress, NoRequest, Idle, Kinds, Routing, storeVars, identityVars,
    projectionVars
<1>4. ASSUME NEW r \in Requests, PackageWritten(r) PROVE PositionsKnown'
  <2>1. /\ lastRow' = lastRow + 1 /\ rows' = rows \cup {lastRow + 1}
        /\ req' = [req EXCEPT ![r] = [@ EXCEPT !.step = "written", !.row = lastRow + 1]]
    BY <1>4, WriteEffect DEF IInv, PackageWritten
  <2> QED BY <1>4, <2>1 DEF TypeOK, LogTyped, RequestTyped, PositionsKnown, InProgress, NoRequest,
    Idle, Kinds, Routing, storeVars, identityVars, projectionVars, PackageWritten
<1>5. ASSUME NEW r \in Requests, PackageRefused(r) PROVE PositionsKnown'
  BY <1>5, CatalogueAssumption DEF PackageRefused, Return, TypeOK, LogTyped, RequestTyped,
    PositionsKnown, InProgress, NoRequest, Idle, Kinds, Routing, storeVars, identityVars,
    projectionVars
<1>6. ASSUME NEW r \in Requests, NEW o \in Outcomes, PackageRecorded(r, o) PROVE PositionsKnown'
  <2>1. \E out : Record(r, out) /\ (out = o \/ out = "refused")
    BY <1>6 DEF PackageRecorded
  <2>2. req[r].op # None
    BY <1>6, CatalogueAssumption DEF InProgress, Kinds, Routing, PackageRecorded
  <2>3. log' = log \/ (Recorded(r) /\ Len(log') = Len(log) + 1 /\ req[r].op \in Kinds)
    BY <2>1, <2>2, RecordedOrNot, RequestFacts DEF Recorded
  <2>4. \A i \in DOMAIN log : i \in DOMAIN log' /\ log'[i] = log[i]
    BY <2>3 DEF TypeOK, LogTyped, Recorded
  <2> QED BY <1>6, <2>4 DEF TypeOK, LogTyped, RequestTyped, PositionsKnown, InProgress, NoRequest,
    Idle, Kinds, Routing, storeVars, identityVars, projectionVars, PackageRecorded, Return
<1>7. ASSUME NEW r \in Requests, NEW p \in Packages, NEW h \in Hashes, ReplacementBegins(r, p, h)
  PROVE PositionsKnown'
  BY <1>7, CatalogueAssumption DEF ReplacementBegins, Begin, TypeOK, LogTyped, RequestTyped,
    PositionsKnown, InProgress, NoRequest, Idle, Kinds, Routing, storeVars, identityVars,
    projectionVars
<1>8. ASSUME NEW r \in Requests, ReplacementWritten(r) PROVE PositionsKnown'
  <2>1. /\ lastRow' = lastRow + 1 /\ rows' = rows \cup {lastRow + 1}
        /\ req' = [req EXCEPT ![r] = [@ EXCEPT !.step = "written", !.row = lastRow + 1]]
    BY <1>8, WriteEffect DEF IInv, ReplacementWritten
  <2> QED BY <1>8, <2>1 DEF TypeOK, LogTyped, RequestTyped, PositionsKnown, InProgress, NoRequest,
    Idle, Kinds, Routing, storeVars, identityVars, projectionVars, ReplacementWritten
<1>9. ASSUME NEW r \in Requests, ReplacementRefused(r) PROVE PositionsKnown'
  BY <1>9, CatalogueAssumption DEF ReplacementRefused, Return, TypeOK, LogTyped, RequestTyped,
    PositionsKnown, InProgress, NoRequest, Idle, Kinds, Routing, storeVars, identityVars,
    projectionVars
<1>10. ASSUME NEW r \in Requests, NEW o \in Outcomes, ReplacementRecorded(r, o) PROVE
  PositionsKnown'
  <2>1. \E out : Record(r, out) /\ (out = o \/ out = "refused")
    BY <1>10 DEF ReplacementRecorded
  <2>2. req[r].op # None
    BY <1>10, CatalogueAssumption DEF InProgress, Kinds, Routing, ReplacementRecorded
  <2>3. log' = log \/ (Recorded(r) /\ Len(log') = Len(log) + 1 /\ req[r].op \in Kinds)
    BY <2>1, <2>2, RecordedOrNot, RequestFacts DEF Recorded
  <2>4. \A i \in DOMAIN log : i \in DOMAIN log' /\ log'[i] = log[i]
    BY <2>3 DEF TypeOK, LogTyped, Recorded
  <2> QED BY <1>10, <2>4 DEF TypeOK, LogTyped, RequestTyped, PositionsKnown, InProgress, NoRequest,
    Idle, Kinds, Routing, storeVars, identityVars, projectionVars, ReplacementRecorded, Return
<1>11. ASSUME NEW r \in Requests, NEW b \in Bindings, NEW kind \in Routing, BindingBegins(r, b,
  kind) PROVE PositionsKnown'
  BY <1>11, CatalogueAssumption DEF BindingBegins, Begin, TypeOK, LogTyped, RequestTyped,
    PositionsKnown, InProgress, NoRequest, Idle, Kinds, Routing, storeVars, identityVars,
    projectionVars
<1>12. ASSUME NEW r \in Requests, NEW o \in Outcomes, BindingRecorded(r, o) PROVE PositionsKnown'
  <2>1. Record(r, o) /\ req[r].op \in Routing /\ req[r].op # None
    BY <1>12, CatalogueAssumption DEF Kinds, Routing, BindingRecorded
  <2>2. IF o = "refused" THEN log' = log ELSE Recorded(r)
    BY <2>1, RecordedOrNot
  <2>3. \A i \in DOMAIN log : i \in DOMAIN log' /\ log'[i] = log[i]
    BY <2>2 DEF TypeOK, LogTyped, Recorded
  <2>4. o = "stored" => /\ Len(log') \in DOMAIN log'
                        /\ log'[Len(log')].kind = req[r].op /\ log'[Len(log')].key = req[r].key
    BY <2>2 DEF TypeOK, LogTyped, Recorded
  <2>5. \A s \in Requests : s # r => req'[s] = req[s]
    BY <1>12 DEF BindingRecorded, Return, TypeOK, RequestTyped
  <2>6. IF o = "stored" THEN /\ req'[r].op = req[r].op /\ req'[r].key = req[r].key
                             /\ req'[r].row = Len(log')
                        ELSE req'[r].op = None
    BY <1>12 DEF BindingRecorded, Return, NoRequest, TypeOK, RequestTyped
  <2>7. None \notin Routing
    BY CatalogueAssumption DEF Kinds
  <2> QED BY <2>3, <2>4, <2>5, <2>6, <2>7 DEF PositionsKnown
<1>13. ASSUME NEW r \in Requests, BindingAnswered(r) PROVE PositionsKnown'
  BY <1>13, CatalogueAssumption DEF BindingAnswered, Return, TypeOK, LogTyped, RequestTyped,
    PositionsKnown, InProgress, NoRequest, Idle, Kinds, Routing, storeVars, identityVars,
    projectionVars
<1>14. ASSUME NEW r \in Requests, NEW q \in Pipelines, NEW n \in Names, WorkspaceBegins(r, q, n)
  PROVE PositionsKnown'
  BY <1>14, CatalogueAssumption DEF WorkspaceBegins, Begin, TypeOK, LogTyped, RequestTyped,
    PositionsKnown, InProgress, NoRequest, Idle, Kinds, Routing, storeVars, identityVars,
    projectionVars
<1>15. ASSUME NEW r \in Requests, WorkspaceWritten(r) PROVE PositionsKnown'
  <2>1. /\ lastRow' = lastRow + 1 /\ rows' = rows \cup {lastRow + 1}
        /\ req' = [req EXCEPT ![r] = [@ EXCEPT !.step = "written", !.row = lastRow + 1]]
    BY <1>15, WriteEffect DEF IInv, WorkspaceWritten
  <2> QED BY <1>15, <2>1 DEF TypeOK, LogTyped, RequestTyped, PositionsKnown, InProgress, NoRequest,
    Idle, Kinds, Routing, storeVars, identityVars, projectionVars, WorkspaceWritten
<1>16. ASSUME NEW r \in Requests, WorkspaceRefused(r) PROVE PositionsKnown'
  BY <1>16, CatalogueAssumption DEF WorkspaceRefused, Return, TypeOK, LogTyped, RequestTyped,
    PositionsKnown, InProgress, NoRequest, Idle, Kinds, Routing, storeVars, identityVars,
    projectionVars
<1>17. ASSUME NEW r \in Requests, NEW o \in Outcomes, WorkspaceRecorded(r, o) PROVE PositionsKnown'
  <2>1. \E out : Record(r, out) /\ (out = o \/ out = "refused")
    BY <1>17 DEF WorkspaceRecorded
  <2>2. req[r].op # None
    BY <1>17, CatalogueAssumption DEF InProgress, Kinds, Routing, WorkspaceRecorded
  <2>3. log' = log \/ (Recorded(r) /\ Len(log') = Len(log) + 1 /\ req[r].op \in Kinds)
    BY <2>1, <2>2, RecordedOrNot, RequestFacts DEF Recorded
  <2>4. \A i \in DOMAIN log : i \in DOMAIN log' /\ log'[i] = log[i]
    BY <2>3 DEF TypeOK, LogTyped, Recorded
  <2> QED BY <1>17, <2>4 DEF TypeOK, LogTyped, RequestTyped, PositionsKnown, InProgress, NoRequest,
    Idle, Kinds, Routing, storeVars, identityVars, projectionVars, WorkspaceRecorded, Return
<1>18. ASSUME NEW r \in Requests, NEW fails \in BOOLEAN, WorkspaceCleaned(r, fails) PROVE
  PositionsKnown'
  BY <1>18, CatalogueAssumption DEF WorkspaceCleaned, Return, TypeOK, LogTyped, RequestTyped,
    PositionsKnown, InProgress, NoRequest, Idle, Kinds, Routing, storeVars, identityVars,
    projectionVars
<1>19. CASE Handle
  BY <1>19, CatalogueAssumption DEF Handle, TypeOK, LogTyped, RequestTyped, PositionsKnown,
    InProgress, NoRequest, Idle, Kinds, Routing, storeVars, identityVars, projectionVars
<1>20. CASE Reconnect
  BY <1>20, CatalogueAssumption DEF Reconnect, TypeOK, LogTyped, RequestTyped, PositionsKnown,
    InProgress, NoRequest, Idle, Kinds, Routing, storeVars, identityVars, projectionVars
<1>21. CASE UNCHANGED vars
  BY <1>21, CatalogueAssumption DEF vars, storeVars, identityVars, projectionVars, TypeOK, LogTyped,
    RequestTyped, PositionsKnown, InProgress, NoRequest, Idle, Kinds, Routing, storeVars,
    identityVars, projectionVars
<1> QED BY <1>1, <1>2, <1>3, <1>4, <1>5, <1>6, <1>7, <1>8, <1>9, <1>10, <1>11, <1>12, <1>13, <1>14,
  <1>15, <1>16, <1>17, <1>18, <1>19, <1>20, <1>21 DEF Next, CreateCategory, CreatePackage,
  ReplaceGeometry, ChangeBinding, AddWorkspace
-----------------------------------------------------------------------------
LEMMA RequestKnowsNext ==
  ASSUME TypeOK, RequestKnows, RowsOwned, [Next]_vars PROVE RequestKnows'
<1>1. ASSUME NEW r \in Requests, NEW c \in Categories, NEW x \in Prefixes, CategoryChecked(r, c, x)
  PROVE RequestKnows'
  BY <1>1, CatalogueAssumption DEF CategoryChecked, Begin, TypeOK, RequestTyped, RequestKnows,
    InProgress, NoRequest, Idle, Kinds, Steps, Routing, storeVars, identityVars, projectionVars
<1>2. ASSUME NEW r \in Requests, NEW o \in Outcomes, CategoryRecorded(r, o) PROVE RequestKnows'
  BY <1>2, CatalogueAssumption DEF CategoryRecorded, Return, TypeOK, RequestTyped, RequestKnows,
    InProgress, NoRequest, Idle, Kinds, Steps, Routing, storeVars, identityVars, projectionVars
<1>3. ASSUME NEW r \in Requests, NEW p \in Packages, NEW c \in Categories, NEW published \in
  BOOLEAN, NEW id \in ShortIds, PackageBegins(r, p, c, published, id) PROVE RequestKnows'
  BY <1>3, CatalogueAssumption DEF PackageBegins, Begin, TypeOK, RequestTyped, RequestKnows,
    InProgress, NoRequest, Idle, Kinds, Steps, Routing, storeVars, identityVars, projectionVars
<1>4. ASSUME NEW r \in Requests, PackageWritten(r) PROVE RequestKnows'
  <2>1. /\ lastRow' = lastRow + 1 /\ rows' = rows \cup {lastRow + 1}
        /\ req' = [req EXCEPT ![r] = [@ EXCEPT !.step = "written", !.row = lastRow + 1]]
    BY <1>4, WriteEffect DEF IInv, PackageWritten
  <2> QED BY <1>4, <2>1, CatalogueAssumption DEF TypeOK, RequestTyped, RequestKnows, InProgress,
    NoRequest, Idle, Kinds, Steps, Routing, storeVars, identityVars, projectionVars, PackageWritten
<1>5. ASSUME NEW r \in Requests, PackageRefused(r) PROVE RequestKnows'
  BY <1>5, CatalogueAssumption DEF PackageRefused, Return, TypeOK, RequestTyped, RequestKnows,
    InProgress, NoRequest, Idle, Kinds, Steps, Routing, storeVars, identityVars, projectionVars
<1>6. ASSUME NEW r \in Requests, NEW o \in Outcomes, PackageRecorded(r, o) PROVE RequestKnows'
  BY <1>6, CatalogueAssumption DEF PackageRecorded, Return, TypeOK, RequestTyped, RequestKnows,
    InProgress, NoRequest, Idle, Kinds, Steps, Routing, storeVars, identityVars, projectionVars
<1>7. ASSUME NEW r \in Requests, NEW p \in Packages, NEW h \in Hashes, ReplacementBegins(r, p, h)
  PROVE RequestKnows'
  BY <1>7, CatalogueAssumption DEF ReplacementBegins, Begin, TypeOK, RequestTyped, RequestKnows,
    InProgress, NoRequest, Idle, Kinds, Steps, Routing, storeVars, identityVars, projectionVars
<1>8. ASSUME NEW r \in Requests, ReplacementWritten(r) PROVE RequestKnows'
  <2>1. /\ lastRow' = lastRow + 1 /\ rows' = rows \cup {lastRow + 1}
        /\ req' = [req EXCEPT ![r] = [@ EXCEPT !.step = "written", !.row = lastRow + 1]]
    BY <1>8, WriteEffect DEF IInv, ReplacementWritten
  <2> QED BY <1>8, <2>1, CatalogueAssumption DEF TypeOK, RequestTyped, RequestKnows, InProgress,
    NoRequest, Idle, Kinds, Steps, Routing, storeVars, identityVars, projectionVars,
    ReplacementWritten
<1>9. ASSUME NEW r \in Requests, ReplacementRefused(r) PROVE RequestKnows'
  BY <1>9, CatalogueAssumption DEF ReplacementRefused, Return, TypeOK, RequestTyped, RequestKnows,
    InProgress, NoRequest, Idle, Kinds, Steps, Routing, storeVars, identityVars, projectionVars
<1>10. ASSUME NEW r \in Requests, NEW o \in Outcomes, ReplacementRecorded(r, o) PROVE RequestKnows'
  BY <1>10, CatalogueAssumption DEF ReplacementRecorded, Return, TypeOK, RequestTyped, RequestKnows,
    InProgress, NoRequest, Idle, Kinds, Steps, Routing, storeVars, identityVars, projectionVars
<1>11. ASSUME NEW r \in Requests, NEW b \in Bindings, NEW kind \in Routing, BindingBegins(r, b,
  kind) PROVE RequestKnows'
  BY <1>11, CatalogueAssumption DEF BindingBegins, Begin, TypeOK, RequestTyped, RequestKnows,
    InProgress, NoRequest, Idle, Kinds, Steps, Routing, storeVars, identityVars, projectionVars
<1>12. ASSUME NEW r \in Requests, NEW o \in Outcomes, BindingRecorded(r, o) PROVE RequestKnows'
  BY <1>12, CatalogueAssumption DEF BindingRecorded, Return, TypeOK, RequestTyped, RequestKnows,
    InProgress, NoRequest, Idle, Kinds, Steps, Routing, storeVars, identityVars, projectionVars
<1>13. ASSUME NEW r \in Requests, BindingAnswered(r) PROVE RequestKnows'
  BY <1>13, CatalogueAssumption DEF BindingAnswered, Return, TypeOK, RequestTyped, RequestKnows,
    InProgress, NoRequest, Idle, Kinds, Steps, Routing, storeVars, identityVars, projectionVars
<1>14. ASSUME NEW r \in Requests, NEW q \in Pipelines, NEW n \in Names, WorkspaceBegins(r, q, n)
  PROVE RequestKnows'
  BY <1>14, CatalogueAssumption DEF WorkspaceBegins, Begin, TypeOK, RequestTyped, RequestKnows,
    InProgress, NoRequest, Idle, Kinds, Steps, Routing, storeVars, identityVars, projectionVars
<1>15. ASSUME NEW r \in Requests, WorkspaceWritten(r) PROVE RequestKnows'
  <2>1. /\ lastRow' = lastRow + 1 /\ rows' = rows \cup {lastRow + 1}
        /\ req' = [req EXCEPT ![r] = [@ EXCEPT !.step = "written", !.row = lastRow + 1]]
    BY <1>15, WriteEffect DEF IInv, WorkspaceWritten
  <2> QED BY <1>15, <2>1, CatalogueAssumption DEF TypeOK, RequestTyped, RequestKnows, InProgress,
    NoRequest, Idle, Kinds, Steps, Routing, storeVars, identityVars, projectionVars,
    WorkspaceWritten
<1>16. ASSUME NEW r \in Requests, WorkspaceRefused(r) PROVE RequestKnows'
  BY <1>16, CatalogueAssumption DEF WorkspaceRefused, Return, TypeOK, RequestTyped, RequestKnows,
    InProgress, NoRequest, Idle, Kinds, Steps, Routing, storeVars, identityVars, projectionVars
<1>17. ASSUME NEW r \in Requests, NEW o \in Outcomes, WorkspaceRecorded(r, o) PROVE RequestKnows'
  BY <1>17, CatalogueAssumption DEF WorkspaceRecorded, Return, TypeOK, RequestTyped, RequestKnows,
    InProgress, NoRequest, Idle, Kinds, Steps, Routing, storeVars, identityVars, projectionVars
<1>18. ASSUME NEW r \in Requests, NEW fails \in BOOLEAN, WorkspaceCleaned(r, fails) PROVE
  RequestKnows'
  <2>1. \A s \in Requests : s # r => req'[s] = req[s]
    BY <1>18 DEF WorkspaceCleaned, Return, TypeOK, RequestTyped
  <2>2. req'[r] = NoRequest
    BY <1>18 DEF WorkspaceCleaned, Return, TypeOK, RequestTyped
  <2>3. req[r].op = "workspace" /\ req[r].row \in rows
    BY <1>18 DEF WorkspaceCleaned, InProgress, RequestKnows, Routing
  <2>4. \A s \in Requests : s # r /\ req[s].op \notin Routing /\ req[s].row # 0 => req[s].row # req[r].row
    BY <2>3 DEF RowsOwned, Routing
  <2>5. 0 \notin rows
    BY DEF TypeOK, LogTyped
  <2>6. rows' = rows \/ rows' = rows \ {req[r].row}
    BY <1>18 DEF WorkspaceCleaned
  <2>7. None \notin Kinds \cup Steps
    BY CatalogueAssumption
  <2> QED BY <2>1, <2>2, <2>3, <2>4, <2>5, <2>6, <2>7 DEF RequestKnows, NoRequest, Kinds, Steps,
    Routing
<1>19. CASE Handle
  BY <1>19, CatalogueAssumption DEF Handle, TypeOK, RequestTyped, RequestKnows, InProgress,
    NoRequest, Idle, Kinds, Steps, Routing, storeVars, identityVars, projectionVars
<1>20. CASE Reconnect
  BY <1>20, CatalogueAssumption DEF Reconnect, TypeOK, RequestTyped, RequestKnows, InProgress,
    NoRequest, Idle, Kinds, Steps, Routing, storeVars, identityVars, projectionVars
<1>21. CASE UNCHANGED vars
  BY <1>21, CatalogueAssumption DEF vars, storeVars, identityVars, projectionVars, TypeOK,
    RequestTyped, RequestKnows, InProgress, NoRequest, Idle, Kinds, Steps, Routing, storeVars,
    identityVars, projectionVars
<1> QED BY <1>1, <1>2, <1>3, <1>4, <1>5, <1>6, <1>7, <1>8, <1>9, <1>10, <1>11, <1>12, <1>13, <1>14,
  <1>15, <1>16, <1>17, <1>18, <1>19, <1>20, <1>21 DEF Next, CreateCategory, CreatePackage,
  ReplaceGeometry, ChangeBinding, AddWorkspace
-----------------------------------------------------------------------------
(* Short ids.                                                              *)

LEMMA IdsUniqueNext ==
  ASSUME TypeOK, RequestKnows, IdsTaken, ShortIdsUnique, [Next]_vars PROVE ShortIdsUnique'
<1>1. CASE log' = log
  BY <1>1 DEF ShortIdsUnique
<1>2. ASSUME NEW r \in Requests, Grown(r) PROVE ShortIdsUnique'
  <2>1. req[r].op = "package" => \A i \in DOMAIN log : log[i].kind = "package" => log[i].value # req[r].value
    BY DEF IdsTaken
  <2> QED BY <1>2, <2>1, GrownLog DEF ShortIdsUnique, TypeOK
<1> QED BY <1>1, <1>2, LogGrows DEF LogSteps

-----------------------------------------------------------------------------
LEMMA IdsTakenNext ==
  ASSUME TypeOK, RequestKnows, GatesHeld, IdsTaken, [Next]_vars PROVE IdsTaken'
<1>1. ASSUME NEW r \in Requests, NEW c \in Categories, NEW x \in Prefixes, CategoryChecked(r, c, x)
  PROVE IdsTaken'
  BY <1>1, CatalogueAssumption DEF CategoryChecked, Begin, TypeOK, RequestTyped, IdsTaken,
    InProgress, NoRequest, Idle, Kinds, Routing, storeVars, identityVars, projectionVars
<1>2. ASSUME NEW r \in Requests, NEW o \in Outcomes, CategoryRecorded(r, o) PROVE IdsTaken'
  <2>1. Record(r, IF StreamExists("category", req[r].key) THEN "refused" ELSE o) /\ req[r].op # None
    BY <1>2, CatalogueAssumption DEF InProgress, Kinds, Routing, CategoryRecorded
  <2>2. log' = log \/ Recorded(r)
    BY <2>1, RecordedOrNot
  <2>3. \A i \in DOMAIN log' :
            \/ i \in DOMAIN log /\ log'[i] = log[i]
            \/ log'[i].kind = req[r].op /\ log'[i].value = req[r].value
    BY <2>2 DEF TypeOK, LogTyped, Recorded
  <2>4. taken' = taken
    BY <1>2 DEF CategoryRecorded, Released, InProgress, identityVars
  <2>5. \A s \in Requests : s # r => req'[s] = req[s]
    BY <1>2 DEF CategoryRecorded, Return, TypeOK, RequestTyped
  <2>6. req'[r].op # "package" /\ (req[r].op = "package" => \A s \in Requests : req[s].op = "package" => s = r)
    BY <1>2, CatalogueAssumption DEF CategoryRecorded, Return, NoRequest, TypeOK, RequestTyped,
      GatesHeld, InProgress, Kinds, Routing
  <2> QED BY <2>3, <2>4, <2>5, <2>6 DEF IdsTaken
<1>3. ASSUME NEW r \in Requests, NEW p \in Packages, NEW c \in Categories, NEW published \in
  BOOLEAN, NEW id \in ShortIds, PackageBegins(r, p, c, published, id) PROVE IdsTaken'
  <2>1. taken' = taken \cup {id} /\ id \notin taken /\ log' = log
    BY <1>3 DEF PackageBegins, Reserve, Generated, ShortIds
  <2>2. req' = [req EXCEPT ![r] = [op |-> "package", step |-> "begun", key |-> p, value |-> id, row |-> 0]]
    BY <1>3 DEF PackageBegins, Begin
  <2>3. \A s \in Requests : req'[s].op = "package" => s = r
    BY <1>3, <2>2 DEF PackageBegins, GateFree, TypeOK, RequestTyped
  <2>4. req'[r].value = id
    BY <2>2 DEF TypeOK, RequestTyped
  <2> QED BY <2>1, <2>3, <2>4 DEF IdsTaken
<1>4. ASSUME NEW r \in Requests, PackageWritten(r) PROVE IdsTaken'
  <2>1. /\ lastRow' = lastRow + 1 /\ rows' = rows \cup {lastRow + 1}
        /\ req' = [req EXCEPT ![r] = [@ EXCEPT !.step = "written", !.row = lastRow + 1]]
    BY <1>4, WriteEffect DEF IInv, PackageWritten
  <2> QED BY <1>4, <2>1 DEF TypeOK, RequestTyped, IdsTaken, InProgress, NoRequest, Idle, Kinds,
    Routing, storeVars, identityVars, projectionVars, PackageWritten
<1>5. ASSUME NEW r \in Requests, PackageRefused(r) PROVE IdsTaken'
  <2>1. taken' = taken \ {req[r].value} /\ log' = log /\ req[r].op = "package"
    BY <1>5 DEF PackageRefused, Released, InProgress
  <2>2. \A s \in Requests : req'[s].op # "package"
    BY <1>5, <2>1, CatalogueAssumption DEF PackageRefused, Return, NoRequest, GatesHeld, TypeOK,
      RequestTyped, Kinds
  <2> QED BY <2>1, <2>2 DEF IdsTaken
<1>6. ASSUME NEW r \in Requests, NEW o \in Outcomes, PackageRecorded(r, o) PROVE IdsTaken'
  <2>1. Record(r, o) /\ req[r].op # None
    BY <1>6, CatalogueAssumption DEF InProgress, Kinds, Routing, PackageRecorded
  <2>2. log' = log \/ Recorded(r)
    BY <2>1, RecordedOrNot
  <2>3. \A i \in DOMAIN log' :
            \/ i \in DOMAIN log /\ log'[i] = log[i]
            \/ log'[i].kind = req[r].op /\ log'[i].value = req[r].value
    BY <2>2 DEF TypeOK, LogTyped, Recorded
  <2>4. taken' = taken
    BY <1>6 DEF PackageRecorded, Released, InProgress, identityVars
  <2>5. \A s \in Requests : s # r => req'[s] = req[s]
    BY <1>6 DEF PackageRecorded, Return, TypeOK, RequestTyped
  <2>6. req'[r].op # "package" /\ (req[r].op = "package" => \A s \in Requests : req[s].op = "package" => s = r)
    BY <1>6, CatalogueAssumption DEF PackageRecorded, Return, NoRequest, TypeOK, RequestTyped,
      GatesHeld, InProgress, Kinds, Routing
  <2> QED BY <2>3, <2>4, <2>5, <2>6 DEF IdsTaken
<1>7. ASSUME NEW r \in Requests, NEW p \in Packages, NEW h \in Hashes, ReplacementBegins(r, p, h)
  PROVE IdsTaken'
  BY <1>7, CatalogueAssumption DEF ReplacementBegins, Begin, TypeOK, RequestTyped, IdsTaken,
    InProgress, NoRequest, Idle, Kinds, Routing, storeVars, identityVars, projectionVars
<1>8. ASSUME NEW r \in Requests, ReplacementWritten(r) PROVE IdsTaken'
  <2>1. /\ lastRow' = lastRow + 1 /\ rows' = rows \cup {lastRow + 1}
        /\ req' = [req EXCEPT ![r] = [@ EXCEPT !.step = "written", !.row = lastRow + 1]]
    BY <1>8, WriteEffect DEF IInv, ReplacementWritten
  <2> QED BY <1>8, <2>1 DEF TypeOK, RequestTyped, IdsTaken, InProgress, NoRequest, Idle, Kinds,
    Routing, storeVars, identityVars, projectionVars, ReplacementWritten
<1>9. ASSUME NEW r \in Requests, ReplacementRefused(r) PROVE IdsTaken'
  BY <1>9, CatalogueAssumption DEF ReplacementRefused, Return, TypeOK, RequestTyped, IdsTaken,
    InProgress, NoRequest, Idle, Kinds, Routing, storeVars, identityVars, projectionVars
<1>10. ASSUME NEW r \in Requests, NEW o \in Outcomes, ReplacementRecorded(r, o) PROVE IdsTaken'
  <2>1. Record(r, o) /\ req[r].op # None
    BY <1>10, CatalogueAssumption DEF InProgress, Kinds, Routing, ReplacementRecorded
  <2>2. log' = log \/ Recorded(r)
    BY <2>1, RecordedOrNot
  <2>3. \A i \in DOMAIN log' :
            \/ i \in DOMAIN log /\ log'[i] = log[i]
            \/ log'[i].kind = req[r].op /\ log'[i].value = req[r].value
    BY <2>2 DEF TypeOK, LogTyped, Recorded
  <2>4. taken' = taken
    BY <1>10 DEF ReplacementRecorded, Released, InProgress, identityVars
  <2>5. \A s \in Requests : s # r => req'[s] = req[s]
    BY <1>10 DEF ReplacementRecorded, Return, TypeOK, RequestTyped
  <2>6. req'[r].op # "package" /\ (req[r].op = "package" => \A s \in Requests : req[s].op = "package" => s = r)
    BY <1>10, CatalogueAssumption DEF ReplacementRecorded, Return, NoRequest, TypeOK, RequestTyped,
      GatesHeld, InProgress, Kinds, Routing
  <2> QED BY <2>3, <2>4, <2>5, <2>6 DEF IdsTaken
<1>11. ASSUME NEW r \in Requests, NEW b \in Bindings, NEW kind \in Routing, BindingBegins(r, b,
  kind) PROVE IdsTaken'
  BY <1>11, CatalogueAssumption DEF BindingBegins, Begin, TypeOK, RequestTyped, IdsTaken,
    InProgress, NoRequest, Idle, Kinds, Routing, storeVars, identityVars, projectionVars
<1>12. ASSUME NEW r \in Requests, NEW o \in Outcomes, BindingRecorded(r, o) PROVE IdsTaken'
  <2>1. Record(r, o) /\ req[r].op # None
    BY <1>12, CatalogueAssumption DEF InProgress, Kinds, Routing, BindingRecorded
  <2>2. log' = log \/ Recorded(r)
    BY <2>1, RecordedOrNot
  <2>3. \A i \in DOMAIN log' :
            \/ i \in DOMAIN log /\ log'[i] = log[i]
            \/ log'[i].kind = req[r].op /\ log'[i].value = req[r].value
    BY <2>2 DEF TypeOK, LogTyped, Recorded
  <2>4. taken' = taken
    BY <1>12 DEF BindingRecorded, Released, InProgress, identityVars
  <2>5. \A s \in Requests : s # r => req'[s] = req[s]
    BY <1>12 DEF BindingRecorded, Return, TypeOK, RequestTyped
  <2>6. req'[r].op # "package" /\ (req[r].op = "package" => \A s \in Requests : req[s].op = "package" => s = r)
    BY <1>12, CatalogueAssumption DEF BindingRecorded, Return, NoRequest, TypeOK, RequestTyped,
      GatesHeld, InProgress, Kinds, Routing
  <2> QED BY <2>3, <2>4, <2>5, <2>6 DEF IdsTaken
<1>13. ASSUME NEW r \in Requests, BindingAnswered(r) PROVE IdsTaken'
  BY <1>13, CatalogueAssumption DEF BindingAnswered, Return, TypeOK, RequestTyped, IdsTaken,
    InProgress, NoRequest, Idle, Kinds, Routing, storeVars, identityVars, projectionVars
<1>14. ASSUME NEW r \in Requests, NEW q \in Pipelines, NEW n \in Names, WorkspaceBegins(r, q, n)
  PROVE IdsTaken'
  BY <1>14, CatalogueAssumption DEF WorkspaceBegins, Begin, TypeOK, RequestTyped, IdsTaken,
    InProgress, NoRequest, Idle, Kinds, Routing, storeVars, identityVars, projectionVars
<1>15. ASSUME NEW r \in Requests, WorkspaceWritten(r) PROVE IdsTaken'
  <2>1. /\ lastRow' = lastRow + 1 /\ rows' = rows \cup {lastRow + 1}
        /\ req' = [req EXCEPT ![r] = [@ EXCEPT !.step = "written", !.row = lastRow + 1]]
    BY <1>15, WriteEffect DEF IInv, WorkspaceWritten
  <2> QED BY <1>15, <2>1 DEF TypeOK, RequestTyped, IdsTaken, InProgress, NoRequest, Idle, Kinds,
    Routing, storeVars, identityVars, projectionVars, WorkspaceWritten
<1>16. ASSUME NEW r \in Requests, WorkspaceRefused(r) PROVE IdsTaken'
  BY <1>16, CatalogueAssumption DEF WorkspaceRefused, Return, TypeOK, RequestTyped, IdsTaken,
    InProgress, NoRequest, Idle, Kinds, Routing, storeVars, identityVars, projectionVars
<1>17. ASSUME NEW r \in Requests, NEW o \in Outcomes, WorkspaceRecorded(r, o) PROVE IdsTaken'
  <2>1. Record(r, o) /\ req[r].op # None
    BY <1>17, CatalogueAssumption DEF InProgress, Kinds, Routing, WorkspaceRecorded
  <2>2. log' = log \/ Recorded(r)
    BY <2>1, RecordedOrNot
  <2>3. \A i \in DOMAIN log' :
            \/ i \in DOMAIN log /\ log'[i] = log[i]
            \/ log'[i].kind = req[r].op /\ log'[i].value = req[r].value
    BY <2>2 DEF TypeOK, LogTyped, Recorded
  <2>4. taken' = taken
    BY <1>17 DEF WorkspaceRecorded, Released, InProgress, identityVars
  <2>5. \A s \in Requests : s # r => req'[s] = req[s]
    BY <1>17 DEF WorkspaceRecorded, Return, TypeOK, RequestTyped
  <2>6. req'[r].op # "package" /\ (req[r].op = "package" => \A s \in Requests : req[s].op = "package" => s = r)
    BY <1>17, CatalogueAssumption DEF WorkspaceRecorded, Return, NoRequest, TypeOK, RequestTyped,
      GatesHeld, InProgress, Kinds, Routing
  <2> QED BY <2>3, <2>4, <2>5, <2>6 DEF IdsTaken
<1>18. ASSUME NEW r \in Requests, NEW fails \in BOOLEAN, WorkspaceCleaned(r, fails) PROVE IdsTaken'
  BY <1>18, CatalogueAssumption DEF WorkspaceCleaned, Return, TypeOK, RequestTyped, IdsTaken,
    InProgress, NoRequest, Idle, Kinds, Routing, storeVars, identityVars, projectionVars
<1>19. CASE Handle
  BY <1>19, CatalogueAssumption DEF Handle, TypeOK, RequestTyped, IdsTaken, InProgress, NoRequest,
    Idle, Kinds, Routing, storeVars, identityVars, projectionVars
<1>20. CASE Reconnect
  BY <1>20, CatalogueAssumption DEF Reconnect, TypeOK, RequestTyped, IdsTaken, InProgress,
    NoRequest, Idle, Kinds, Routing, storeVars, identityVars, projectionVars
<1>21. CASE UNCHANGED vars
  BY <1>21, CatalogueAssumption DEF vars, storeVars, identityVars, projectionVars, TypeOK,
    RequestTyped, IdsTaken, InProgress, NoRequest, Idle, Kinds, Routing, storeVars, identityVars,
    projectionVars
<1> QED BY <1>1, <1>2, <1>3, <1>4, <1>5, <1>6, <1>7, <1>8, <1>9, <1>10, <1>11, <1>12, <1>13, <1>14,
  <1>15, <1>16, <1>17, <1>18, <1>19, <1>20, <1>21 DEF Next, CreateCategory, CreatePackage,
  ReplaceGeometry, ChangeBinding, AddWorkspace
-----------------------------------------------------------------------------
(* The assignment index.                                                   *)

LEMMA QuietIndex ==
  ASSUME TypeOK, IndexKnows, LogSteps, index' = index, position' = position, acked' = acked
  PROVE  IndexKnows'
<1>1. CASE log' = log
  BY <1>1 DEF IndexKnows, At
<1>2. ASSUME NEW r \in Requests, Grown(r) PROVE IndexKnows'
  <2>0. Len(log) \in Nat
    BY DEF TypeOK, LogTyped
  <2>1. /\ Len(log) \in Nat /\ position <= Len(log) /\ position \in Nat
        /\ \A i \in acked : i \in 1 .. Len(log)
    BY <2>0 DEF TypeOK, ListingTyped
  <2>2. \A b \in Bindings : \A i \in At(Routing, b)' : i \in At(Routing, b) \/ i = Len(log) + 1
    BY <1>2, AtGrows DEF TypeOK
  <2>3. \A b \in Bindings : At(Routing, b) \subseteq At(Routing, b)'
    BY <1>2, AtGrows DEF TypeOK
  <2>4. \A b \in Bindings : \A i \in At(Routing, b)' :
          i <= position \/ i \in acked => i \in At(Routing, b)
    BY <2>1, <2>2
  <2>5. \A b \in Bindings : \A i \in At(Routing, b) : i \in DOMAIN log /\ log'[i] = log[i]
    BY <1>2, GrownLog DEF At, TypeOK
  <2> QED BY <2>3, <2>4, <2>5 DEF IndexKnows
<1> QED BY <1>1, <1>2 DEF LogSteps

LEMMA UpdatedIndex ==
  ASSUME TypeOK, IndexKnows, UNCHANGED log, NEW b \in Bindings, NEW n \in At(Routing, b),
         NEW a \in BOOLEAN, a = (log[n].kind = "bound"), Update(b, a, n),
         \A c \in Bindings : \A i \in At(Routing, c) :
           i <= position' \/ i \in acked' => i <= position \/ i \in acked \/ (c = b /\ i = n)
  PROVE  IndexKnows'
<1>1. n \in Nat /\ n > 0 /\ \A c \in Bindings : At(Routing, c) \subseteq Nat /\ At(Routing, c)' = At(Routing, c)
  BY DEF TypeOK, LogTyped, At
<1>2. \A c \in Bindings : index[c].at \in Nat
  BY DEF TypeOK, ListingTyped
<1>3. CASE n > index[b].at
  <2>1. index' = [index EXCEPT ![b] = [active |-> a, at |-> n]]
    BY <1>3 DEF Update
  <2>2. index'[b].at = n /\ index'[b].active = a /\ \A c \in Bindings : c # b => index'[c] = index[c]
    BY <2>1 DEF TypeOK, ListingTyped
  <2>3. ASSUME NEW c \in Bindings, NEW i \in At(Routing, c), i <= position' \/ i \in acked'
        PROVE  i <= index'[c].at
    BY <1>1, <1>2, <1>3, <2>2, <2>3 DEF IndexKnows
  <2>4. ASSUME NEW c \in Bindings, c # b
        PROVE  IF index'[c].at = 0 THEN ~index'[c].active
               ELSE index'[c].at \in At(Routing, c)' /\ index'[c].active = (log'[index'[c].at].kind = "bound")
    BY <1>1, <2>2, <2>4 DEF IndexKnows
  <2>5. index'[b].at # 0 /\ index'[b].at \in At(Routing, b)' /\ index'[b].active = (log'[index'[b].at].kind = "bound")
    BY <1>1, <2>2
  <2> QED BY <1>1, <2>3, <2>4, <2>5 DEF IndexKnows
<1>4. CASE ~(n > index[b].at)
  <2>1. index' = index
    BY <1>4 DEF Update
  <2>2. n <= index[b].at
    BY <1>1, <1>2, <1>4
  <2> QED BY <1>1, <2>1, <2>2 DEF IndexKnows
<1> QED BY <1>3, <1>4

-----------------------------------------------------------------------------
LEMMA IndexNext ==
  ASSUME TypeOK, RequestKnows, LogKnows, PositionsKnown, IndexKnows, [Next]_vars PROVE IndexKnows'
<1>1. ASSUME NEW r \in Requests, NEW c \in Categories, NEW x \in Prefixes, CategoryChecked(r, c, x)
  PROVE IndexKnows'
  BY <1>1, LogGrows, QuietIndex DEF projectionVars, CategoryChecked
<1>2. ASSUME NEW r \in Requests, NEW o \in Outcomes, CategoryRecorded(r, o) PROVE IndexKnows'
  BY <1>2, LogGrows, QuietIndex DEF projectionVars, CategoryRecorded
<1>3. ASSUME NEW r \in Requests, NEW p \in Packages, NEW c \in Categories, NEW published \in
  BOOLEAN, NEW id \in ShortIds, PackageBegins(r, p, c, published, id) PROVE IndexKnows'
  BY <1>3, LogGrows, QuietIndex DEF projectionVars, PackageBegins
<1>4. ASSUME NEW r \in Requests, PackageWritten(r) PROVE IndexKnows'
  BY <1>4, LogGrows, QuietIndex DEF projectionVars, PackageWritten
<1>5. ASSUME NEW r \in Requests, PackageRefused(r) PROVE IndexKnows'
  BY <1>5, LogGrows, QuietIndex DEF projectionVars, PackageRefused
<1>6. ASSUME NEW r \in Requests, NEW o \in Outcomes, PackageRecorded(r, o) PROVE IndexKnows'
  BY <1>6, LogGrows, QuietIndex DEF projectionVars, PackageRecorded
<1>7. ASSUME NEW r \in Requests, NEW p \in Packages, NEW h \in Hashes, ReplacementBegins(r, p, h)
  PROVE IndexKnows'
  BY <1>7, LogGrows, QuietIndex DEF projectionVars, ReplacementBegins
<1>8. ASSUME NEW r \in Requests, ReplacementWritten(r) PROVE IndexKnows'
  BY <1>8, LogGrows, QuietIndex DEF projectionVars, ReplacementWritten
<1>9. ASSUME NEW r \in Requests, ReplacementRefused(r) PROVE IndexKnows'
  BY <1>9, LogGrows, QuietIndex DEF projectionVars, ReplacementRefused
<1>10. ASSUME NEW r \in Requests, NEW o \in Outcomes, ReplacementRecorded(r, o) PROVE IndexKnows'
  BY <1>10, LogGrows, QuietIndex DEF projectionVars, ReplacementRecorded
<1>11. ASSUME NEW r \in Requests, NEW b \in Bindings, NEW kind \in Routing, BindingBegins(r, b,
  kind) PROVE IndexKnows'
  BY <1>11, LogGrows, QuietIndex DEF projectionVars, BindingBegins
<1>12. ASSUME NEW r \in Requests, NEW o \in Outcomes, BindingRecorded(r, o) PROVE IndexKnows'
  BY <1>12, LogGrows, QuietIndex DEF projectionVars, BindingRecorded
<1>13. ASSUME NEW r \in Requests, BindingAnswered(r) PROVE IndexKnows'
  <2>1. /\ req[r].op \in Routing /\ req[r].key \in Bindings
        /\ req[r].row \in DOMAIN log /\ log[req[r].row].kind = req[r].op
        /\ log[req[r].row].key = req[r].key
    BY <1>13 DEF BindingAnswered, RequestKnows, PositionsKnown
  <2>2. req[r].row \in At(Routing, req[r].key) /\ (log[req[r].row].kind = "bound") \in BOOLEAN
    BY <2>1 DEF At
  <2>3. \A c \in Bindings : \A i \in At(Routing, c) :
           i <= position' \/ i \in acked' => i <= position \/ i \in acked \/ (c = req[r].key /\ i = req[r].row)
    BY <1>13, <2>1 DEF BindingAnswered, At
  <2>4. Update(req[r].key, log[req[r].row].kind = "bound", req[r].row) /\ UNCHANGED log
    BY <1>13, <2>1, Zenon DEF BindingAnswered
  <2> QED BY <2>1, <2>2, <2>3, <2>4, UpdatedIndex, ZenonT(60)
<1>14. ASSUME NEW r \in Requests, NEW q \in Pipelines, NEW n \in Names, WorkspaceBegins(r, q, n)
  PROVE IndexKnows'
  BY <1>14, LogGrows, QuietIndex DEF projectionVars, WorkspaceBegins
<1>15. ASSUME NEW r \in Requests, WorkspaceWritten(r) PROVE IndexKnows'
  BY <1>15, LogGrows, QuietIndex DEF projectionVars, WorkspaceWritten
<1>16. ASSUME NEW r \in Requests, WorkspaceRefused(r) PROVE IndexKnows'
  BY <1>16, LogGrows, QuietIndex DEF projectionVars, WorkspaceRefused
<1>17. ASSUME NEW r \in Requests, NEW o \in Outcomes, WorkspaceRecorded(r, o) PROVE IndexKnows'
  BY <1>17, LogGrows, QuietIndex DEF projectionVars, WorkspaceRecorded
<1>18. ASSUME NEW r \in Requests, NEW fails \in BOOLEAN, WorkspaceCleaned(r, fails) PROVE
  IndexKnows'
  BY <1>18, LogGrows, QuietIndex DEF projectionVars, WorkspaceCleaned
<1>19. CASE Handle
  <2> DEFINE n == position + 1
             e == log[n]
  <2>1. n \in DOMAIN log /\ position' = n /\ UNCHANGED <<log, acked>>
    BY <1>19 DEF Handle, TypeOK, LogTyped, ListingTyped
  <2>2. \A c \in Bindings : \A i \in At(Routing, c) :
           i <= position' \/ i \in acked' => i <= position \/ i \in acked \/ (i = n /\ e.key = c /\ e.kind \in Routing)
    <3>1. \A c \in Bindings : \A i \in At(Routing, c) : i \in Nat /\ log[i].kind \in Routing /\ log[i].key = c
      BY DEF At, TypeOK, LogTyped
    <3>2. position \in Nat
      BY DEF TypeOK, LogTyped, ListingTyped
    <3> QED BY <2>1, <3>1, <3>2
  <2>3. IF e.kind \in Routing THEN Update(e.key, e.kind = "bound", n) ELSE index' = index
    BY <1>19, <2>1, Zenon DEF Handle
  <2>4. CASE e.kind \in Routing
    <3>1. e.key \in Bindings /\ n \in At(Routing, e.key) /\ (e.kind = "bound") \in BOOLEAN
      BY <2>1, <2>4 DEF LogKnows, At
    <3>2. \A c \in Bindings : \A i \in At(Routing, c) :
            i <= position' \/ i \in acked' => i <= position \/ i \in acked \/ (c = e.key /\ i = n)
      BY <2>2
    <3>3. Update(e.key, e.kind = "bound", n) /\ UNCHANGED log
      BY <2>1, <2>3, <2>4, Zenon
    <3> HIDE DEF n
    <3> QED BY <3>1, <3>2, <3>3, UpdatedIndex, Zenon
  <2>5. CASE e.kind \notin Routing
    BY <2>1, <2>2, <2>3, <2>5 DEF IndexKnows, At
  <2> QED BY <2>4, <2>5
<1>20. CASE Reconnect
  <2>1. position' \in Nat /\ position' < position /\ position \in Nat
    BY <1>20 DEF Reconnect, Start, TypeOK, ListingTyped, LogTyped
  <2>2. \A c \in Bindings : At(Routing, c) \subseteq Nat
    BY DEF At, TypeOK, LogTyped
  <2>3. \A c \in Bindings : \A i \in At(Routing, c) : i <= position' => i <= position
    BY <2>1, <2>2
  <2> QED BY <1>20, <2>3 DEF Reconnect, IndexKnows, At, projectionVars
<1>21. CASE UNCHANGED vars
  BY <1>21, LogGrows, QuietIndex DEF vars, projectionVars
<1> QED BY <1>1, <1>2, <1>3, <1>4, <1>5, <1>6, <1>7, <1>8, <1>9, <1>10, <1>11, <1>12, <1>13, <1>14,
  <1>15, <1>16, <1>17, <1>18, <1>19, <1>20, <1>21 DEF Next, CreateCategory, CreatePackage,
  ReplaceGeometry, ChangeBinding, AddWorkspace
-----------------------------------------------------------------------------
(* Geometry rows.                                                          *)

LEMMA ReferencedGrows ==
  ASSUME TypeOK, NEW r \in Requests, Grown(r)
  PROVE  Referenced' = Referenced \cup ((IF req[r].op \in Routing THEN {} ELSE {req[r].row}) \ {0})
BY GrownLog DEF Referenced, TypeOK

\* What a request that has written a row holds.
LEMMA RowHeld ==
  ASSUME TypeOK, RequestKnows, NEW r \in Requests, req[r].op \in {"package", "geometry", "workspace"},
         req[r].step \in {"written", "failed"}
  PROVE  req[r].row \in rows /\ req[r].row # 0 /\ req[r].op \notin Routing
BY DEF TypeOK, LogTyped, RequestKnows, Routing

\* A row that is written is new.
LEMMA NewRow ==
  ASSUME TypeOK, RequestKnows
  PROVE  /\ lastRow + 1 \notin rows /\ lastRow + 1 # 0
         /\ \A i \in DOMAIN log : log[i].row # lastRow + 1
         /\ \A s \in Requests : req[s].op \notin Routing => req[s].row # lastRow + 1
<1>1. lastRow \in Nat
  BY DEF TypeOK, LogTyped
<1>2. lastRow + 1 \notin rows /\ \A i \in DOMAIN log : log[i].row # lastRow + 1
  BY <1>1 DEF TypeOK, LogTyped
<1> QED BY <1>1, <1>2 DEF RequestKnows

-----------------------------------------------------------------------------
LEMMA RowsNext ==
  ASSUME TypeOK, RequestKnows, RowsOwned, [Next]_vars PROVE RowsOwned'
<1>1. ASSUME NEW r \in Requests, NEW c \in Categories, NEW x \in Prefixes, CategoryChecked(r, c, x)
  PROVE RowsOwned'
  BY <1>1, CatalogueAssumption DEF CategoryChecked, Begin, TypeOK, RequestTyped, RowsOwned,
    InProgress, NoRequest, Idle, Kinds, Routing, storeVars, identityVars, projectionVars
<1>2. ASSUME NEW r \in Requests, NEW o \in Outcomes, CategoryRecorded(r, o) PROVE RowsOwned'
  <2>1. Record(r, IF StreamExists("category", req[r].key) THEN "refused" ELSE o) /\ req[r].op # None
    BY <1>2, CatalogueAssumption DEF InProgress, Kinds, Routing, CategoryRecorded
  <2>2. log' = log \/ Recorded(r)
    BY <2>1, RecordedOrNot
  <2>3. \A s \in Requests : s # r => req'[s] = req[s]
    BY <1>2 DEF CategoryRecorded, Return, TypeOK, RequestTyped
  <2>4. \A s \in Requests : s # r /\ req[s].op \notin Routing /\ req[s].row # 0 =>
          req[r].op \in Routing \/ req[s].row # req[r].row
    BY DEF RowsOwned
  <2>5. \A i \in DOMAIN log' : (i \in DOMAIN log /\ log'[i] = log[i]) \/
            log'[i].row = IF req[r].op \in Routing THEN 0 ELSE req[r].row
    BY <2>2 DEF TypeOK, LogTyped, Recorded
  <2>6. req'[r].row = 0 \/ req'[r].op \in Routing
    BY <1>2 DEF CategoryRecorded, Return, NoRequest, TypeOK, RequestTyped
  <2> QED BY <2>3, <2>4, <2>5, <2>6 DEF RowsOwned
<1>3. ASSUME NEW r \in Requests, NEW p \in Packages, NEW c \in Categories, NEW published \in
  BOOLEAN, NEW id \in ShortIds, PackageBegins(r, p, c, published, id) PROVE RowsOwned'
  BY <1>3, CatalogueAssumption DEF PackageBegins, Begin, TypeOK, RequestTyped, RowsOwned,
    InProgress, NoRequest, Idle, Kinds, Routing, storeVars, identityVars, projectionVars
<1>4. ASSUME NEW r \in Requests, PackageWritten(r) PROVE RowsOwned'
  <2>1. req' = [req EXCEPT ![r] = [@ EXCEPT !.step = "written", !.row = lastRow + 1]]
    BY <1>4, WriteEffect DEF PackageWritten
  <2>2. log' = log
    BY <1>4 DEF PackageWritten
  <2>3. \A s \in Requests : s # r => req'[s] = req[s]
    BY <2>1 DEF TypeOK, RequestTyped
  <2>4. req'[r].row = lastRow + 1
    BY <2>1 DEF TypeOK, RequestTyped
  <2> QED BY <2>2, <2>3, <2>4, NewRow DEF RowsOwned
<1>5. ASSUME NEW r \in Requests, PackageRefused(r) PROVE RowsOwned'
  BY <1>5, CatalogueAssumption DEF PackageRefused, Return, TypeOK, RequestTyped, RowsOwned,
    InProgress, NoRequest, Idle, Kinds, Routing, storeVars, identityVars, projectionVars
<1>6. ASSUME NEW r \in Requests, NEW o \in Outcomes, PackageRecorded(r, o) PROVE RowsOwned'
  <2>1. Record(r, o) /\ req[r].op # None
    BY <1>6, CatalogueAssumption DEF InProgress, Kinds, Routing, PackageRecorded
  <2>2. log' = log \/ Recorded(r)
    BY <2>1, RecordedOrNot
  <2>3. \A s \in Requests : s # r => req'[s] = req[s]
    BY <1>6 DEF PackageRecorded, Return, TypeOK, RequestTyped
  <2>4. \A s \in Requests : s # r /\ req[s].op \notin Routing /\ req[s].row # 0 =>
          req[r].op \in Routing \/ req[s].row # req[r].row
    BY DEF RowsOwned
  <2>5. \A i \in DOMAIN log' : (i \in DOMAIN log /\ log'[i] = log[i]) \/
            log'[i].row = IF req[r].op \in Routing THEN 0 ELSE req[r].row
    BY <2>2 DEF TypeOK, LogTyped, Recorded
  <2>6. req'[r].row = 0 \/ req'[r].op \in Routing
    BY <1>6 DEF PackageRecorded, Return, NoRequest, TypeOK, RequestTyped
  <2> QED BY <2>3, <2>4, <2>5, <2>6 DEF RowsOwned
<1>7. ASSUME NEW r \in Requests, NEW p \in Packages, NEW h \in Hashes, ReplacementBegins(r, p, h)
  PROVE RowsOwned'
  BY <1>7, CatalogueAssumption DEF ReplacementBegins, Begin, TypeOK, RequestTyped, RowsOwned,
    InProgress, NoRequest, Idle, Kinds, Routing, storeVars, identityVars, projectionVars
<1>8. ASSUME NEW r \in Requests, ReplacementWritten(r) PROVE RowsOwned'
  <2>1. req' = [req EXCEPT ![r] = [@ EXCEPT !.step = "written", !.row = lastRow + 1]]
    BY <1>8, WriteEffect DEF ReplacementWritten
  <2>2. log' = log
    BY <1>8 DEF ReplacementWritten
  <2>3. \A s \in Requests : s # r => req'[s] = req[s]
    BY <2>1 DEF TypeOK, RequestTyped
  <2>4. req'[r].row = lastRow + 1
    BY <2>1 DEF TypeOK, RequestTyped
  <2> QED BY <2>2, <2>3, <2>4, NewRow DEF RowsOwned
<1>9. ASSUME NEW r \in Requests, ReplacementRefused(r) PROVE RowsOwned'
  BY <1>9, CatalogueAssumption DEF ReplacementRefused, Return, TypeOK, RequestTyped, RowsOwned,
    InProgress, NoRequest, Idle, Kinds, Routing, storeVars, identityVars, projectionVars
<1>10. ASSUME NEW r \in Requests, NEW o \in Outcomes, ReplacementRecorded(r, o) PROVE RowsOwned'
  <2>1. Record(r, o) /\ req[r].op # None
    BY <1>10, CatalogueAssumption DEF InProgress, Kinds, Routing, ReplacementRecorded
  <2>2. log' = log \/ Recorded(r)
    BY <2>1, RecordedOrNot
  <2>3. \A s \in Requests : s # r => req'[s] = req[s]
    BY <1>10 DEF ReplacementRecorded, Return, TypeOK, RequestTyped
  <2>4. \A s \in Requests : s # r /\ req[s].op \notin Routing /\ req[s].row # 0 =>
          req[r].op \in Routing \/ req[s].row # req[r].row
    BY DEF RowsOwned
  <2>5. \A i \in DOMAIN log' : (i \in DOMAIN log /\ log'[i] = log[i]) \/
            log'[i].row = IF req[r].op \in Routing THEN 0 ELSE req[r].row
    BY <2>2 DEF TypeOK, LogTyped, Recorded
  <2>6. req'[r].row = 0 \/ req'[r].op \in Routing
    BY <1>10 DEF ReplacementRecorded, Return, NoRequest, TypeOK, RequestTyped
  <2> QED BY <2>3, <2>4, <2>5, <2>6 DEF RowsOwned
<1>11. ASSUME NEW r \in Requests, NEW b \in Bindings, NEW kind \in Routing, BindingBegins(r, b,
  kind) PROVE RowsOwned'
  BY <1>11, CatalogueAssumption DEF BindingBegins, Begin, TypeOK, RequestTyped, RowsOwned,
    InProgress, NoRequest, Idle, Kinds, Routing, storeVars, identityVars, projectionVars
<1>12. ASSUME NEW r \in Requests, NEW o \in Outcomes, BindingRecorded(r, o) PROVE RowsOwned'
  <2>1. Record(r, o) /\ req[r].op # None
    BY <1>12, CatalogueAssumption DEF InProgress, Kinds, Routing, BindingRecorded
  <2>2. log' = log \/ Recorded(r)
    BY <2>1, RecordedOrNot
  <2>3. \A s \in Requests : s # r => req'[s] = req[s]
    BY <1>12 DEF BindingRecorded, Return, TypeOK, RequestTyped
  <2>4. \A s \in Requests : s # r /\ req[s].op \notin Routing /\ req[s].row # 0 =>
          req[r].op \in Routing \/ req[s].row # req[r].row
    BY DEF RowsOwned
  <2>5. \A i \in DOMAIN log' : (i \in DOMAIN log /\ log'[i] = log[i]) \/
            log'[i].row = IF req[r].op \in Routing THEN 0 ELSE req[r].row
    BY <2>2 DEF TypeOK, LogTyped, Recorded
  <2>6. req'[r].row = 0 \/ req'[r].op \in Routing
    BY <1>12 DEF BindingRecorded, Return, NoRequest, TypeOK, RequestTyped
  <2> QED BY <2>3, <2>4, <2>5, <2>6 DEF RowsOwned
<1>13. ASSUME NEW r \in Requests, BindingAnswered(r) PROVE RowsOwned'
  BY <1>13, CatalogueAssumption DEF BindingAnswered, Return, TypeOK, RequestTyped, RowsOwned,
    InProgress, NoRequest, Idle, Kinds, Routing, storeVars, identityVars, projectionVars
<1>14. ASSUME NEW r \in Requests, NEW q \in Pipelines, NEW n \in Names, WorkspaceBegins(r, q, n)
  PROVE RowsOwned'
  BY <1>14, CatalogueAssumption DEF WorkspaceBegins, Begin, TypeOK, RequestTyped, RowsOwned,
    InProgress, NoRequest, Idle, Kinds, Routing, storeVars, identityVars, projectionVars
<1>15. ASSUME NEW r \in Requests, WorkspaceWritten(r) PROVE RowsOwned'
  <2>1. req' = [req EXCEPT ![r] = [@ EXCEPT !.step = "written", !.row = lastRow + 1]]
    BY <1>15, WriteEffect DEF WorkspaceWritten
  <2>2. log' = log
    BY <1>15 DEF WorkspaceWritten
  <2>3. \A s \in Requests : s # r => req'[s] = req[s]
    BY <2>1 DEF TypeOK, RequestTyped
  <2>4. req'[r].row = lastRow + 1
    BY <2>1 DEF TypeOK, RequestTyped
  <2> QED BY <2>2, <2>3, <2>4, NewRow DEF RowsOwned
<1>16. ASSUME NEW r \in Requests, WorkspaceRefused(r) PROVE RowsOwned'
  BY <1>16, CatalogueAssumption DEF WorkspaceRefused, Return, TypeOK, RequestTyped, RowsOwned,
    InProgress, NoRequest, Idle, Kinds, Routing, storeVars, identityVars, projectionVars
<1>17. ASSUME NEW r \in Requests, NEW o \in Outcomes, WorkspaceRecorded(r, o) PROVE RowsOwned'
  <2>1. Record(r, o) /\ req[r].op # None
    BY <1>17, CatalogueAssumption DEF InProgress, Kinds, Routing, WorkspaceRecorded
  <2>2. log' = log \/ Recorded(r)
    BY <2>1, RecordedOrNot
  <2>3. \A s \in Requests : s # r => req'[s] = req[s]
    BY <1>17 DEF WorkspaceRecorded, Return, TypeOK, RequestTyped
  <2>4. \A s \in Requests : s # r /\ req[s].op \notin Routing /\ req[s].row # 0 =>
          req[r].op \in Routing \/ req[s].row # req[r].row
    BY DEF RowsOwned
  <2>5. \A i \in DOMAIN log' : (i \in DOMAIN log /\ log'[i] = log[i]) \/
            log'[i].row = IF req[r].op \in Routing THEN 0 ELSE req[r].row
    BY <2>2 DEF TypeOK, LogTyped, Recorded
  <2>6. \/ req'[r].row = 0
        \/ /\ req'[r].op = "workspace" /\ req'[r].step = "failed"
           /\ req'[r].key = req[r].key /\ req'[r].row = req[r].row
    BY <1>17 DEF WorkspaceRecorded, InProgress, Return, NoRequest, TypeOK, RequestTyped
  <2>7. req[r].op = "workspace"
    BY <1>17 DEF WorkspaceRecorded, InProgress
  <2>8. \A i \in DOMAIN log' : log'[i].row = req[r].row /\ req[r].row # 0 =>
          log'[i].kind = "workspace" /\ log'[i].key = req[r].key
    BY <2>2, <2>5, <2>7, SMTT(30) DEF RowsOwned, Routing, TypeOK, LogTyped, Recorded
  <2> QED BY <2>3, <2>4, <2>5, <2>6, <2>7, <2>8 DEF RowsOwned
<1>18. ASSUME NEW r \in Requests, NEW fails \in BOOLEAN, WorkspaceCleaned(r, fails) PROVE RowsOwned'
  BY <1>18, CatalogueAssumption DEF WorkspaceCleaned, Return, TypeOK, RequestTyped, RowsOwned,
    InProgress, NoRequest, Idle, Kinds, Routing, storeVars, identityVars, projectionVars
<1>19. CASE Handle
  BY <1>19, CatalogueAssumption DEF Handle, TypeOK, RequestTyped, RowsOwned, InProgress, NoRequest,
    Idle, Kinds, Routing, storeVars, identityVars, projectionVars
<1>20. CASE Reconnect
  BY <1>20, CatalogueAssumption DEF Reconnect, TypeOK, RequestTyped, RowsOwned, InProgress,
    NoRequest, Idle, Kinds, Routing, storeVars, identityVars, projectionVars
<1>21. CASE UNCHANGED vars
  BY <1>21, CatalogueAssumption DEF vars, storeVars, identityVars, projectionVars, TypeOK,
    RequestTyped, RowsOwned, InProgress, NoRequest, Idle, Kinds, Routing, storeVars, identityVars,
    projectionVars
<1> QED BY <1>1, <1>2, <1>3, <1>4, <1>5, <1>6, <1>7, <1>8, <1>9, <1>10, <1>11, <1>12, <1>13, <1>14,
  <1>15, <1>16, <1>17, <1>18, <1>19, <1>20, <1>21 DEF Next, CreateCategory, CreatePackage,
  ReplaceGeometry, ChangeBinding, AddWorkspace
-----------------------------------------------------------------------------
LEMMA StoredNext ==
  ASSUME TypeOK, RequestKnows, RowsOwned, ReferencesStored, [Next]_vars PROVE ReferencesStored'
<1>1. ASSUME NEW r \in Requests, NEW c \in Categories, NEW x \in Prefixes, CategoryChecked(r, c, x)
  PROVE ReferencesStored'
  BY <1>1, CatalogueAssumption DEF CategoryChecked, ReferencesStored, Referenced, storeVars
<1>2. ASSUME NEW r \in Requests, NEW o \in Outcomes, CategoryRecorded(r, o) PROVE ReferencesStored'
  <2>1. rows' = rows
    BY <1>2 DEF CategoryRecorded, storeVars
  <2>2. log' = log => Referenced' = Referenced
    BY DEF Referenced
  <2>3. ASSUME NEW s \in Requests, Grown(s), req[s].op \notin Routing PROVE req[s].row \in rows \cup
    {0}
    BY <2>3 DEF RequestKnows
  <2> QED BY <2>1, <2>2, <2>3, LogGrows, ReferencedGrows DEF LogSteps, ReferencesStored
<1>3. ASSUME NEW r \in Requests, NEW p \in Packages, NEW c \in Categories, NEW published \in
  BOOLEAN, NEW id \in ShortIds, PackageBegins(r, p, c, published, id) PROVE ReferencesStored'
  BY <1>3, CatalogueAssumption DEF PackageBegins, ReferencesStored, Referenced, storeVars
<1>4. ASSUME NEW r \in Requests, PackageWritten(r) PROVE ReferencesStored'
  <2>1. rows' = rows \cup {lastRow + 1} /\ log' = log
    BY <1>4, WriteEffect DEF PackageWritten
  <2> QED BY <2>1 DEF ReferencesStored, Referenced
<1>5. ASSUME NEW r \in Requests, PackageRefused(r) PROVE ReferencesStored'
  BY <1>5, CatalogueAssumption DEF PackageRefused, ReferencesStored, Referenced, storeVars
<1>6. ASSUME NEW r \in Requests, NEW o \in Outcomes, PackageRecorded(r, o) PROVE ReferencesStored'
  <2>1. rows' = rows
    BY <1>6 DEF PackageRecorded, storeVars
  <2>2. log' = log => Referenced' = Referenced
    BY DEF Referenced
  <2>3. ASSUME NEW s \in Requests, Grown(s), req[s].op \notin Routing PROVE req[s].row \in rows \cup
    {0}
    BY <2>3 DEF RequestKnows
  <2> QED BY <2>1, <2>2, <2>3, LogGrows, ReferencedGrows DEF LogSteps, ReferencesStored
<1>7. ASSUME NEW r \in Requests, NEW p \in Packages, NEW h \in Hashes, ReplacementBegins(r, p, h)
  PROVE ReferencesStored'
  BY <1>7, CatalogueAssumption DEF ReplacementBegins, ReferencesStored, Referenced, storeVars
<1>8. ASSUME NEW r \in Requests, ReplacementWritten(r) PROVE ReferencesStored'
  <2>1. rows' = rows \cup {lastRow + 1} /\ log' = log
    BY <1>8, WriteEffect DEF ReplacementWritten
  <2> QED BY <2>1 DEF ReferencesStored, Referenced
<1>9. ASSUME NEW r \in Requests, ReplacementRefused(r) PROVE ReferencesStored'
  BY <1>9, CatalogueAssumption DEF ReplacementRefused, ReferencesStored, Referenced, storeVars
<1>10. ASSUME NEW r \in Requests, NEW o \in Outcomes, ReplacementRecorded(r, o) PROVE
  ReferencesStored'
  <2>1. rows' = rows
    BY <1>10 DEF ReplacementRecorded, storeVars
  <2>2. log' = log => Referenced' = Referenced
    BY DEF Referenced
  <2>3. ASSUME NEW s \in Requests, Grown(s), req[s].op \notin Routing PROVE req[s].row \in rows \cup
    {0}
    BY <2>3 DEF RequestKnows
  <2> QED BY <2>1, <2>2, <2>3, LogGrows, ReferencedGrows DEF LogSteps, ReferencesStored
<1>11. ASSUME NEW r \in Requests, NEW b \in Bindings, NEW kind \in Routing, BindingBegins(r, b,
  kind) PROVE ReferencesStored'
  BY <1>11, CatalogueAssumption DEF BindingBegins, ReferencesStored, Referenced, storeVars
<1>12. ASSUME NEW r \in Requests, NEW o \in Outcomes, BindingRecorded(r, o) PROVE ReferencesStored'
  <2>1. rows' = rows
    BY <1>12 DEF BindingRecorded, storeVars
  <2>2. log' = log => Referenced' = Referenced
    BY DEF Referenced
  <2>3. ASSUME NEW s \in Requests, Grown(s), req[s].op \notin Routing PROVE req[s].row \in rows \cup
    {0}
    BY <2>3 DEF RequestKnows
  <2> QED BY <2>1, <2>2, <2>3, LogGrows, ReferencedGrows DEF LogSteps, ReferencesStored
<1>13. ASSUME NEW r \in Requests, BindingAnswered(r) PROVE ReferencesStored'
  BY <1>13, CatalogueAssumption DEF BindingAnswered, ReferencesStored, Referenced, storeVars
<1>14. ASSUME NEW r \in Requests, NEW q \in Pipelines, NEW n \in Names, WorkspaceBegins(r, q, n)
  PROVE ReferencesStored'
  BY <1>14, CatalogueAssumption DEF WorkspaceBegins, ReferencesStored, Referenced, storeVars
<1>15. ASSUME NEW r \in Requests, WorkspaceWritten(r) PROVE ReferencesStored'
  <2>1. rows' = rows \cup {lastRow + 1} /\ log' = log
    BY <1>15, WriteEffect DEF WorkspaceWritten
  <2> QED BY <2>1 DEF ReferencesStored, Referenced
<1>16. ASSUME NEW r \in Requests, WorkspaceRefused(r) PROVE ReferencesStored'
  BY <1>16, CatalogueAssumption DEF WorkspaceRefused, ReferencesStored, Referenced, storeVars
<1>17. ASSUME NEW r \in Requests, NEW o \in Outcomes, WorkspaceRecorded(r, o) PROVE
  ReferencesStored'
  <2>1. rows' = rows
    BY <1>17 DEF WorkspaceRecorded, storeVars
  <2>2. log' = log => Referenced' = Referenced
    BY DEF Referenced
  <2>3. ASSUME NEW s \in Requests, Grown(s), req[s].op \notin Routing PROVE req[s].row \in rows \cup
    {0}
    BY <2>3 DEF RequestKnows
  <2> QED BY <2>1, <2>2, <2>3, LogGrows, ReferencedGrows DEF LogSteps, ReferencesStored
<1>18. ASSUME NEW r \in Requests, NEW fails \in BOOLEAN, WorkspaceCleaned(r, fails) PROVE
  ReferencesStored'
  <2>1. log' = log /\ (rows' = rows \/ (Unconfirmed(r) /\ rows' = rows \ {req[r].row}))
    BY <1>18 DEF WorkspaceCleaned
  <2>2. req[r].op \notin Routing /\ req[r].row # 0
    BY <1>18, RowHeld DEF WorkspaceCleaned, InProgress
  <2>3. Unconfirmed(r) => \A i \in DOMAIN log : log[i].row # req[r].row
    BY <2>2 DEF Unconfirmed, At, RowsOwned
  <2> QED BY <2>1, <2>3 DEF ReferencesStored, Referenced
<1>19. CASE Handle
  BY <1>19 DEF Handle, ReferencesStored, Referenced, storeVars
<1>20. CASE Reconnect
  BY <1>20 DEF Reconnect, ReferencesStored, Referenced, storeVars
<1>21. CASE UNCHANGED vars
  BY <1>21 DEF vars, ReferencesStored, Referenced, storeVars
<1> QED BY <1>1, <1>2, <1>3, <1>4, <1>5, <1>6, <1>7, <1>8, <1>9, <1>10, <1>11, <1>12, <1>13, <1>14,
  <1>15, <1>16, <1>17, <1>18, <1>19, <1>20, <1>21 DEF Next, CreateCategory, CreatePackage,
  ReplaceGeometry, ChangeBinding, AddWorkspace

\* What a request that returns leaves behind is referred to, or reported.
LEMMA NamedRows ==
  ASSUME TypeOK, NoSilentOrphan, NEW r \in Requests, rows' \subseteq rows,
         \A s \in Requests : s # r => req'[s] = req[s],
         Referenced \subseteq Referenced', reported \subseteq reported',
         req[r].op \notin Routing =>
           \/ req[r].row \in Referenced' \cup reported' \cup {0}
           \/ req[r].row \notin rows'
           \/ req'[r].row = req[r].row /\ req'[r].op \notin Routing
  PROVE  NoSilentOrphan'
<1> SUFFICES ASSUME NEW row \in rows',
                    row \notin Referenced' \cup reported'
             PROVE  \E s \in Requests : req'[s].row = row /\ req'[s].op \notin Routing
  BY DEF NoSilentOrphan
<1>1. row # 0
  BY DEF TypeOK, LogTyped
<1>2. PICK s \in Requests : req[s].row = row /\ req[s].op \notin Routing
  BY DEF NoSilentOrphan
<1> QED BY <1>1, <1>2
-----------------------------------------------------------------------------
LEMMA OrphanNext ==
  ASSUME TypeOK, RequestKnows, NoSilentOrphan, [Next]_vars PROVE NoSilentOrphan'
<1>1. ASSUME NEW r \in Requests, NEW c \in Categories, NEW x \in Prefixes, CategoryChecked(r, c, x)
  PROVE NoSilentOrphan'
  <2>1. rows' = rows /\ log' = log /\ reported' = reported
    BY <1>1 DEF CategoryChecked, storeVars
  <2>2. \A s \in Requests : s # r => req'[s] = req[s]
    BY <1>1 DEF CategoryChecked, Begin, TypeOK, RequestTyped
  <2>3. Referenced' = Referenced
    BY <2>1 DEF Referenced
  <2>4. req[r].row = 0 \/ req[r].op \in Routing
    BY <1>1, CatalogueAssumption DEF CategoryChecked, Begin, InProgress, Idle, RequestKnows,
      Routing, Kinds, Steps
  <2> QED BY <2>1, <2>2, <2>3, <2>4, NamedRows
<1>2. ASSUME NEW r \in Requests, NEW o \in Outcomes, CategoryRecorded(r, o) PROVE NoSilentOrphan'
  <2>1. Record(r, IF StreamExists("category", req[r].key) THEN "refused" ELSE o) /\ req[r].op # None
    BY <1>2, CatalogueAssumption DEF InProgress, Kinds, Routing, CategoryRecorded
  <2>2. IF (IF StreamExists("category", req[r].key) THEN "refused" ELSE o) = "refused" THEN log' = log ELSE Recorded(r)
    BY <2>1, RecordedOrNot
  <2>3. /\ rows' = rows /\ reported' = reported
        /\ \A s \in Requests : s # r => req'[s] = req[s]
    BY <1>2 DEF CategoryRecorded, Return, TypeOK, RequestTyped, storeVars
  <2>4. Referenced \subseteq Referenced'
    BY <2>2 DEF Referenced, Recorded, TypeOK, LogTyped
  <2>5. req[r].row = 0
    BY <1>2 DEF CategoryRecorded, InProgress, RequestKnows, Routing
  <2>6. TRUE
    OBVIOUS
  <2> QED BY <2>2, <2>3, <2>4, <2>5, <2>6, NamedRows
<1>3. ASSUME NEW r \in Requests, NEW p \in Packages, NEW c \in Categories, NEW published \in
  BOOLEAN, NEW id \in ShortIds, PackageBegins(r, p, c, published, id) PROVE NoSilentOrphan'
  <2>1. rows' = rows /\ log' = log /\ reported' = reported
    BY <1>3 DEF PackageBegins, storeVars
  <2>2. \A s \in Requests : s # r => req'[s] = req[s]
    BY <1>3 DEF PackageBegins, Begin, TypeOK, RequestTyped
  <2>3. Referenced' = Referenced
    BY <2>1 DEF Referenced
  <2>4. req[r].row = 0 \/ req[r].op \in Routing
    BY <1>3, CatalogueAssumption DEF PackageBegins, Begin, InProgress, Idle, RequestKnows, Routing,
      Kinds, Steps
  <2> QED BY <2>1, <2>2, <2>3, <2>4, NamedRows
<1>4. ASSUME NEW r \in Requests, PackageWritten(r) PROVE NoSilentOrphan'
  <2>1. /\ rows' = rows \cup {lastRow + 1}
        /\ req' = [req EXCEPT ![r] = [@ EXCEPT !.step = "written", !.row = lastRow + 1]]
    BY <1>4, WriteEffect DEF PackageWritten
  <2>2. log' = log /\ reported' = reported /\ req[r].row = 0
    BY <1>4 DEF PackageWritten, InProgress, RequestKnows, Routing
  <2>3. \A s \in Requests : s # r => req'[s] = req[s]
    BY <2>1 DEF TypeOK, RequestTyped
  <2>4. req'[r].row = lastRow + 1 /\ req'[r].op \notin Routing
    BY <1>4, <2>1 DEF TypeOK, RequestTyped, PackageWritten, InProgress, Routing
  <2>5. 0 \notin rows
    BY DEF TypeOK, LogTyped
  <2> QED BY <2>1, <2>2, <2>3, <2>4, <2>5 DEF NoSilentOrphan, Referenced
<1>5. ASSUME NEW r \in Requests, PackageRefused(r) PROVE NoSilentOrphan'
  <2>1. rows' = rows /\ log' = log /\ reported' = reported
    BY <1>5 DEF PackageRefused, storeVars
  <2>2. \A s \in Requests : s # r => req'[s] = req[s]
    BY <1>5 DEF PackageRefused, Return, TypeOK, RequestTyped
  <2>3. Referenced' = Referenced
    BY <2>1 DEF Referenced
  <2>4. req[r].row = 0 \/ req[r].op \in Routing
    BY <1>5, CatalogueAssumption DEF PackageRefused, Return, InProgress, Idle, RequestKnows,
      Routing, Kinds, Steps
  <2> QED BY <2>1, <2>2, <2>3, <2>4, NamedRows
<1>6. ASSUME NEW r \in Requests, NEW o \in Outcomes, PackageRecorded(r, o) PROVE NoSilentOrphan'
  <2>1. Record(r, o) /\ req[r].op # None
    BY <1>6, CatalogueAssumption DEF InProgress, Kinds, Routing, PackageRecorded
  <2>2. IF (o) = "refused" THEN log' = log ELSE Recorded(r)
    BY <2>1, RecordedOrNot
  <2>3. /\ rows' = rows /\ reported' = (IF o = "stored" THEN reported ELSE reported \cup {req[r].row})
        /\ \A s \in Requests : s # r => req'[s] = req[s]
    BY <1>6 DEF PackageRecorded, Report, Return, TypeOK, RequestTyped, storeVars
  <2>4. Referenced \subseteq Referenced'
    BY <2>2 DEF Referenced, Recorded, TypeOK, LogTyped
  <2>5. req[r].op \notin Routing /\ Recorded(r) => req[r].row \in Referenced' \cup {0}
    BY DEF Referenced, Recorded, TypeOK, LogTyped
  <2>6. o # "refused" \/ o # "stored"
    OBVIOUS
  <2> QED BY <2>2, <2>3, <2>4, <2>5, <2>6, NamedRows
<1>7. ASSUME NEW r \in Requests, NEW p \in Packages, NEW h \in Hashes, ReplacementBegins(r, p, h)
  PROVE NoSilentOrphan'
  <2>1. rows' = rows /\ log' = log /\ reported' = reported
    BY <1>7 DEF ReplacementBegins, storeVars
  <2>2. \A s \in Requests : s # r => req'[s] = req[s]
    BY <1>7 DEF ReplacementBegins, Begin, TypeOK, RequestTyped
  <2>3. Referenced' = Referenced
    BY <2>1 DEF Referenced
  <2>4. req[r].row = 0 \/ req[r].op \in Routing
    BY <1>7, CatalogueAssumption DEF ReplacementBegins, Begin, InProgress, Idle, RequestKnows,
      Routing, Kinds, Steps
  <2> QED BY <2>1, <2>2, <2>3, <2>4, NamedRows
<1>8. ASSUME NEW r \in Requests, ReplacementWritten(r) PROVE NoSilentOrphan'
  <2>1. /\ rows' = rows \cup {lastRow + 1}
        /\ req' = [req EXCEPT ![r] = [@ EXCEPT !.step = "written", !.row = lastRow + 1]]
    BY <1>8, WriteEffect DEF ReplacementWritten
  <2>2. log' = log /\ reported' = reported /\ req[r].row = 0
    BY <1>8 DEF ReplacementWritten, InProgress, RequestKnows, Routing
  <2>3. \A s \in Requests : s # r => req'[s] = req[s]
    BY <2>1 DEF TypeOK, RequestTyped
  <2>4. req'[r].row = lastRow + 1 /\ req'[r].op \notin Routing
    BY <1>8, <2>1 DEF TypeOK, RequestTyped, ReplacementWritten, InProgress, Routing
  <2>5. 0 \notin rows
    BY DEF TypeOK, LogTyped
  <2> QED BY <2>1, <2>2, <2>3, <2>4, <2>5 DEF NoSilentOrphan, Referenced
<1>9. ASSUME NEW r \in Requests, ReplacementRefused(r) PROVE NoSilentOrphan'
  <2>1. rows' = rows /\ log' = log /\ reported' = reported
    BY <1>9 DEF ReplacementRefused, storeVars
  <2>2. \A s \in Requests : s # r => req'[s] = req[s]
    BY <1>9 DEF ReplacementRefused, Return, TypeOK, RequestTyped
  <2>3. Referenced' = Referenced
    BY <2>1 DEF Referenced
  <2>4. req[r].row = 0 \/ req[r].op \in Routing
    BY <1>9, CatalogueAssumption DEF ReplacementRefused, Return, InProgress, Idle, RequestKnows,
      Routing, Kinds, Steps
  <2> QED BY <2>1, <2>2, <2>3, <2>4, NamedRows
<1>10. ASSUME NEW r \in Requests, NEW o \in Outcomes, ReplacementRecorded(r, o) PROVE
  NoSilentOrphan'
  <2>1. Record(r, o) /\ req[r].op # None
    BY <1>10, CatalogueAssumption DEF InProgress, Kinds, Routing, ReplacementRecorded
  <2>2. IF (o) = "refused" THEN log' = log ELSE Recorded(r)
    BY <2>1, RecordedOrNot
  <2>3. /\ rows' = rows /\ reported' = (IF o = "stored" THEN reported ELSE reported \cup {req[r].row})
        /\ \A s \in Requests : s # r => req'[s] = req[s]
    BY <1>10 DEF ReplacementRecorded, Report, Return, TypeOK, RequestTyped, storeVars
  <2>4. Referenced \subseteq Referenced'
    BY <2>2 DEF Referenced, Recorded, TypeOK, LogTyped
  <2>5. req[r].op \notin Routing /\ Recorded(r) => req[r].row \in Referenced' \cup {0}
    BY DEF Referenced, Recorded, TypeOK, LogTyped
  <2>6. o # "refused" \/ o # "stored"
    OBVIOUS
  <2> QED BY <2>2, <2>3, <2>4, <2>5, <2>6, NamedRows
<1>11. ASSUME NEW r \in Requests, NEW b \in Bindings, NEW kind \in Routing, BindingBegins(r, b,
  kind) PROVE NoSilentOrphan'
  <2>1. rows' = rows /\ log' = log /\ reported' = reported
    BY <1>11 DEF BindingBegins, storeVars
  <2>2. \A s \in Requests : s # r => req'[s] = req[s]
    BY <1>11 DEF BindingBegins, Begin, TypeOK, RequestTyped
  <2>3. Referenced' = Referenced
    BY <2>1 DEF Referenced
  <2>4. req[r].row = 0 \/ req[r].op \in Routing
    BY <1>11, CatalogueAssumption DEF BindingBegins, Begin, InProgress, Idle, RequestKnows, Routing,
      Kinds, Steps
  <2> QED BY <2>1, <2>2, <2>3, <2>4, NamedRows
<1>12. ASSUME NEW r \in Requests, NEW o \in Outcomes, BindingRecorded(r, o) PROVE NoSilentOrphan'
  <2>1. Record(r, o) /\ req[r].op # None
    BY <1>12, CatalogueAssumption DEF InProgress, Kinds, Routing, BindingRecorded
  <2>2. IF (o) = "refused" THEN log' = log ELSE Recorded(r)
    BY <2>1, RecordedOrNot
  <2>3. /\ rows' = rows /\ reported' = reported
        /\ \A s \in Requests : s # r => req'[s] = req[s]
    BY <1>12 DEF BindingRecorded, Return, TypeOK, RequestTyped, storeVars
  <2>4. Referenced \subseteq Referenced'
    BY <2>2 DEF Referenced, Recorded, TypeOK, LogTyped
  <2>5. req[r].op \in Routing
    BY <1>12 DEF BindingRecorded
  <2>6. TRUE
    OBVIOUS
  <2> QED BY <2>2, <2>3, <2>4, <2>5, <2>6, NamedRows
<1>13. ASSUME NEW r \in Requests, BindingAnswered(r) PROVE NoSilentOrphan'
  <2>1. rows' = rows /\ log' = log /\ reported' = reported
    BY <1>13 DEF BindingAnswered, storeVars
  <2>2. \A s \in Requests : s # r => req'[s] = req[s]
    BY <1>13 DEF BindingAnswered, Return, TypeOK, RequestTyped
  <2>3. Referenced' = Referenced
    BY <2>1 DEF Referenced
  <2>4. req[r].row = 0 \/ req[r].op \in Routing
    BY <1>13, CatalogueAssumption DEF BindingAnswered, Return, InProgress, Idle, RequestKnows,
      Routing, Kinds, Steps
  <2> QED BY <2>1, <2>2, <2>3, <2>4, NamedRows
<1>14. ASSUME NEW r \in Requests, NEW q \in Pipelines, NEW n \in Names, WorkspaceBegins(r, q, n)
  PROVE NoSilentOrphan'
  <2>1. rows' = rows /\ log' = log /\ reported' = reported
    BY <1>14 DEF WorkspaceBegins, storeVars
  <2>2. \A s \in Requests : s # r => req'[s] = req[s]
    BY <1>14 DEF WorkspaceBegins, Begin, TypeOK, RequestTyped
  <2>3. Referenced' = Referenced
    BY <2>1 DEF Referenced
  <2>4. req[r].row = 0 \/ req[r].op \in Routing
    BY <1>14, CatalogueAssumption DEF WorkspaceBegins, Begin, InProgress, Idle, RequestKnows,
      Routing, Kinds, Steps
  <2> QED BY <2>1, <2>2, <2>3, <2>4, NamedRows
<1>15. ASSUME NEW r \in Requests, WorkspaceWritten(r) PROVE NoSilentOrphan'
  <2>1. /\ rows' = rows \cup {lastRow + 1}
        /\ req' = [req EXCEPT ![r] = [@ EXCEPT !.step = "written", !.row = lastRow + 1]]
    BY <1>15, WriteEffect DEF WorkspaceWritten
  <2>2. log' = log /\ reported' = reported /\ req[r].row = 0
    BY <1>15 DEF WorkspaceWritten, InProgress, RequestKnows, Routing
  <2>3. \A s \in Requests : s # r => req'[s] = req[s]
    BY <2>1 DEF TypeOK, RequestTyped
  <2>4. req'[r].row = lastRow + 1 /\ req'[r].op \notin Routing
    BY <1>15, <2>1 DEF TypeOK, RequestTyped, WorkspaceWritten, InProgress, Routing
  <2>5. 0 \notin rows
    BY DEF TypeOK, LogTyped
  <2> QED BY <2>1, <2>2, <2>3, <2>4, <2>5 DEF NoSilentOrphan, Referenced
<1>16. ASSUME NEW r \in Requests, WorkspaceRefused(r) PROVE NoSilentOrphan'
  <2>1. rows' = rows /\ log' = log /\ reported' = reported
    BY <1>16 DEF WorkspaceRefused, storeVars
  <2>2. \A s \in Requests : s # r => req'[s] = req[s]
    BY <1>16 DEF WorkspaceRefused, Return, TypeOK, RequestTyped
  <2>3. Referenced' = Referenced
    BY <2>1 DEF Referenced
  <2>4. req[r].row = 0 \/ req[r].op \in Routing
    BY <1>16, CatalogueAssumption DEF WorkspaceRefused, Return, InProgress, Idle, RequestKnows,
      Routing, Kinds, Steps
  <2> QED BY <2>1, <2>2, <2>3, <2>4, NamedRows
<1>17. ASSUME NEW r \in Requests, NEW o \in Outcomes, WorkspaceRecorded(r, o) PROVE NoSilentOrphan'
  <2>1. Record(r, o) /\ req[r].op # None
    BY <1>17, CatalogueAssumption DEF InProgress, Kinds, Routing, WorkspaceRecorded
  <2>2. IF (o) = "refused" THEN log' = log ELSE Recorded(r)
    BY <2>1, RecordedOrNot
  <2>3. /\ rows' = rows /\ reported' = reported
        /\ \A s \in Requests : s # r => req'[s] = req[s]
    BY <1>17 DEF WorkspaceRecorded, Return, TypeOK, RequestTyped, storeVars
  <2>4. Referenced \subseteq Referenced'
    BY <2>2 DEF Referenced, Recorded, TypeOK, LogTyped
  <2>5. req[r].op \notin Routing /\ Recorded(r) => req[r].row \in Referenced' \cup {0}
    BY DEF Referenced, Recorded, TypeOK, LogTyped
  <2>6. o = "stored" \/ (req'[r].row = req[r].row /\ req'[r].op = req[r].op)
    BY <1>17 DEF WorkspaceRecorded, TypeOK, RequestTyped
  <2> QED BY <2>2, <2>3, <2>4, <2>5, <2>6, NamedRows
<1>18. ASSUME NEW r \in Requests, NEW fails \in BOOLEAN, WorkspaceCleaned(r, fails) PROVE
  NoSilentOrphan'
  <2>1. rows' \subseteq rows /\ log' = log /\ reported' = reported \cup {req[r].row}
    BY <1>18 DEF WorkspaceCleaned, Report
  <2>2. \A s \in Requests : s # r => req'[s] = req[s]
    BY <1>18 DEF WorkspaceCleaned, Return, TypeOK, RequestTyped
  <2>3. Referenced' = Referenced
    BY <2>1 DEF Referenced
  <2> QED BY <2>1, <2>2, <2>3, NamedRows
<1>19. CASE Handle
  BY <1>19 DEF Handle, NoSilentOrphan, Referenced, storeVars
<1>20. CASE Reconnect
  BY <1>20 DEF Reconnect, NoSilentOrphan, Referenced, storeVars
<1>21. CASE UNCHANGED vars
  BY <1>21 DEF vars, NoSilentOrphan, Referenced, storeVars
<1> QED BY <1>1, <1>2, <1>3, <1>4, <1>5, <1>6, <1>7, <1>8, <1>9, <1>10, <1>11, <1>12, <1>13, <1>14,
  <1>15, <1>16, <1>17, <1>18, <1>19, <1>20, <1>21 DEF Next, CreateCategory, CreatePackage,
  ReplaceGeometry, ChangeBinding, AddWorkspace
-----------------------------------------------------------------------------
(* The listing of packages.                                                *)

LEMMA FirstNext ==
  ASSUME TypeOK, RequestKnows, StreamsKnown, PackagesFirst, [Next]_vars PROVE PackagesFirst'
<1>1. CASE log' = log
  BY <1>1 DEF PackagesFirst, At
<1>2. ASSUME NEW r \in Requests, Grown(r) PROVE PackagesFirst'
  <2> DEFINE q == req[r]
             n == Len(log) + 1
  <2>1. q.op = "package" => \A i \in DOMAIN log : log[i].kind = "package" => log[i].key # q.key
    BY DEF StreamsKnown, StreamExists, At
  <2>2. q.op = "geometry" => \E j \in DOMAIN log : log[j].kind = "package" /\ log[j].key = q.key
    BY DEF StreamsKnown, StreamExists, At
  <2>3. /\ Len(log) \in Nat /\ DOMAIN log = 1 .. Len(log)
        /\ \A i \in DOMAIN log : i \in DOMAIN log' /\ log'[i] = log[i]
        /\ \A i \in DOMAIN log' : i \in DOMAIN log \/ i = n
        /\ n \in DOMAIN log' /\ log'[n].kind = q.op /\ log'[n].key = q.key
    BY <1>2, GrownLog DEF TypeOK
  <2> HIDE DEF q
  <2>4. ASSUME NEW i \in DOMAIN log', NEW j \in DOMAIN log',
               log'[i].kind = "package", log'[j].kind = "package", log'[i].key = log'[j].key
        PROVE  i = j
    BY <2>1, <2>3, <2>4 DEF PackagesFirst
  <2>5. ASSUME NEW i \in DOMAIN log', log'[i].kind = "geometry"
        PROVE  \E j \in DOMAIN log' : j < i /\ log'[j].kind = "package" /\ log'[j].key = log'[i].key
    <3>1. CASE i \in DOMAIN log
      <4>1. PICK j \in At({"package"}, log[i].key) : j < i
        BY <2>3, <2>5, <3>1 DEF PackagesFirst
      <4> QED BY <2>3, <3>1, <4>1 DEF At
    <3>2. CASE i = n
      <4>1. PICK j \in DOMAIN log : log[j].kind = "package" /\ log[j].key = q.key
        BY <2>2, <2>3, <2>5, <3>2
      <4>2. j < n
        BY <2>3
      <4> QED BY <2>3, <3>2, <4>1, <4>2
    <3> QED BY <2>3, <3>1, <3>2
  <2> QED BY <2>4, <2>5 DEF PackagesFirst, At
<1> QED BY <1>1, <1>2, LogGrows DEF LogSteps

-----------------------------------------------------------------------------
LEMMA StreamsNext ==
  ASSUME TypeOK, RequestKnows, GatesHeld, StreamsKnown, [Next]_vars PROVE StreamsKnown'
<1>1. ASSUME NEW r \in Requests, NEW c \in Categories, NEW x \in Prefixes, CategoryChecked(r, c, x)
  PROVE StreamsKnown'
  BY <1>1, CatalogueAssumption DEF CategoryChecked, Begin, TypeOK, RequestTyped, StreamsKnown,
    StreamExists, At, GateFree, InProgress, NoRequest, Idle, Kinds, Routing, storeVars,
    identityVars, projectionVars
<1>2. ASSUME NEW r \in Requests, NEW o \in Outcomes, CategoryRecorded(r, o) PROVE StreamsKnown'
  <2>1. Record(r, IF StreamExists("category", req[r].key) THEN "refused" ELSE o) /\ req[r].op # None
    BY <1>2, CatalogueAssumption DEF InProgress, Kinds, Routing, CategoryRecorded
  <2>2. log' = log \/ Recorded(r)
    BY <2>1, RecordedOrNot
  <2>3. /\ \A i \in DOMAIN log : i \in DOMAIN log' /\ log'[i] = log[i]
        /\ \A i \in DOMAIN log' : (i \in DOMAIN log /\ log'[i] = log[i]) \/ log'[i].kind = req[r].op
    BY <2>2 DEF TypeOK, LogTyped, Recorded
  <2>4. \A s \in Requests : s # r => req'[s] = req[s]
    BY <1>2 DEF CategoryRecorded, Return, TypeOK, RequestTyped
  <2>5. /\ req'[r].op \notin {"package", "geometry"}
        /\ req[r].op = "package" => \A s \in Requests : req[s].op = "package" => s = r
    BY <1>2, CatalogueAssumption DEF CategoryRecorded, Return, NoRequest, TypeOK, RequestTyped,
      GatesHeld, InProgress, Kinds, Routing
  <2> QED BY <2>3, <2>4, <2>5 DEF StreamsKnown, StreamExists, At
<1>3. ASSUME NEW r \in Requests, NEW p \in Packages, NEW c \in Categories, NEW published \in
  BOOLEAN, NEW id \in ShortIds, PackageBegins(r, p, c, published, id) PROVE StreamsKnown'
  BY <1>3, CatalogueAssumption DEF PackageBegins, Begin, TypeOK, RequestTyped, StreamsKnown,
    StreamExists, At, GateFree, InProgress, NoRequest, Idle, Kinds, Routing, storeVars,
    identityVars, projectionVars
<1>4. ASSUME NEW r \in Requests, PackageWritten(r) PROVE StreamsKnown'
  <2>1. /\ lastRow' = lastRow + 1 /\ rows' = rows \cup {lastRow + 1}
        /\ req' = [req EXCEPT ![r] = [@ EXCEPT !.step = "written", !.row = lastRow + 1]]
    BY <1>4, WriteEffect DEF IInv, PackageWritten
  <2> QED BY <1>4, <2>1 DEF TypeOK, RequestTyped, StreamsKnown, StreamExists, At, GateFree,
    InProgress, NoRequest, Idle, Kinds, Routing, storeVars, identityVars, projectionVars,
    PackageWritten
<1>5. ASSUME NEW r \in Requests, PackageRefused(r) PROVE StreamsKnown'
  BY <1>5, CatalogueAssumption DEF PackageRefused, Return, TypeOK, RequestTyped, StreamsKnown,
    StreamExists, At, GateFree, InProgress, NoRequest, Idle, Kinds, Routing, storeVars,
    identityVars, projectionVars
<1>6. ASSUME NEW r \in Requests, NEW o \in Outcomes, PackageRecorded(r, o) PROVE StreamsKnown'
  <2>1. Record(r, o) /\ req[r].op # None
    BY <1>6, CatalogueAssumption DEF InProgress, Kinds, Routing, PackageRecorded
  <2>2. log' = log \/ Recorded(r)
    BY <2>1, RecordedOrNot
  <2>3. /\ \A i \in DOMAIN log : i \in DOMAIN log' /\ log'[i] = log[i]
        /\ \A i \in DOMAIN log' : (i \in DOMAIN log /\ log'[i] = log[i]) \/ log'[i].kind = req[r].op
    BY <2>2 DEF TypeOK, LogTyped, Recorded
  <2>4. \A s \in Requests : s # r => req'[s] = req[s]
    BY <1>6 DEF PackageRecorded, Return, TypeOK, RequestTyped
  <2>5. /\ req'[r].op \notin {"package", "geometry"}
        /\ req[r].op = "package" => \A s \in Requests : req[s].op = "package" => s = r
    BY <1>6, CatalogueAssumption DEF PackageRecorded, Return, NoRequest, TypeOK, RequestTyped,
      GatesHeld, InProgress, Kinds, Routing
  <2> QED BY <2>3, <2>4, <2>5 DEF StreamsKnown, StreamExists, At
<1>7. ASSUME NEW r \in Requests, NEW p \in Packages, NEW h \in Hashes, ReplacementBegins(r, p, h)
  PROVE StreamsKnown'
  BY <1>7, CatalogueAssumption DEF ReplacementBegins, Begin, TypeOK, RequestTyped, StreamsKnown,
    StreamExists, At, GateFree, InProgress, NoRequest, Idle, Kinds, Routing, storeVars,
    identityVars, projectionVars
<1>8. ASSUME NEW r \in Requests, ReplacementWritten(r) PROVE StreamsKnown'
  <2>1. /\ lastRow' = lastRow + 1 /\ rows' = rows \cup {lastRow + 1}
        /\ req' = [req EXCEPT ![r] = [@ EXCEPT !.step = "written", !.row = lastRow + 1]]
    BY <1>8, WriteEffect DEF IInv, ReplacementWritten
  <2> QED BY <1>8, <2>1 DEF TypeOK, RequestTyped, StreamsKnown, StreamExists, At, GateFree,
    InProgress, NoRequest, Idle, Kinds, Routing, storeVars, identityVars, projectionVars,
    ReplacementWritten
<1>9. ASSUME NEW r \in Requests, ReplacementRefused(r) PROVE StreamsKnown'
  BY <1>9, CatalogueAssumption DEF ReplacementRefused, Return, TypeOK, RequestTyped, StreamsKnown,
    StreamExists, At, GateFree, InProgress, NoRequest, Idle, Kinds, Routing, storeVars,
    identityVars, projectionVars
<1>10. ASSUME NEW r \in Requests, NEW o \in Outcomes, ReplacementRecorded(r, o) PROVE StreamsKnown'
  <2>1. Record(r, o) /\ req[r].op # None
    BY <1>10, CatalogueAssumption DEF InProgress, Kinds, Routing, ReplacementRecorded
  <2>2. log' = log \/ Recorded(r)
    BY <2>1, RecordedOrNot
  <2>3. /\ \A i \in DOMAIN log : i \in DOMAIN log' /\ log'[i] = log[i]
        /\ \A i \in DOMAIN log' : (i \in DOMAIN log /\ log'[i] = log[i]) \/ log'[i].kind = req[r].op
    BY <2>2 DEF TypeOK, LogTyped, Recorded
  <2>4. \A s \in Requests : s # r => req'[s] = req[s]
    BY <1>10 DEF ReplacementRecorded, Return, TypeOK, RequestTyped
  <2>5. /\ req'[r].op \notin {"package", "geometry"}
        /\ req[r].op = "package" => \A s \in Requests : req[s].op = "package" => s = r
    BY <1>10, CatalogueAssumption DEF ReplacementRecorded, Return, NoRequest, TypeOK, RequestTyped,
      GatesHeld, InProgress, Kinds, Routing
  <2> QED BY <2>3, <2>4, <2>5 DEF StreamsKnown, StreamExists, At
<1>11. ASSUME NEW r \in Requests, NEW b \in Bindings, NEW kind \in Routing, BindingBegins(r, b,
  kind) PROVE StreamsKnown'
  BY <1>11, CatalogueAssumption DEF BindingBegins, Begin, TypeOK, RequestTyped, StreamsKnown,
    StreamExists, At, GateFree, InProgress, NoRequest, Idle, Kinds, Routing, storeVars,
    identityVars, projectionVars
<1>12. ASSUME NEW r \in Requests, NEW o \in Outcomes, BindingRecorded(r, o) PROVE StreamsKnown'
  <2>1. Record(r, o) /\ req[r].op # None
    BY <1>12, CatalogueAssumption DEF InProgress, Kinds, Routing, BindingRecorded
  <2>2. log' = log \/ Recorded(r)
    BY <2>1, RecordedOrNot
  <2>3. /\ \A i \in DOMAIN log : i \in DOMAIN log' /\ log'[i] = log[i]
        /\ \A i \in DOMAIN log' : (i \in DOMAIN log /\ log'[i] = log[i]) \/ log'[i].kind = req[r].op
    BY <2>2 DEF TypeOK, LogTyped, Recorded
  <2>4. \A s \in Requests : s # r => req'[s] = req[s]
    BY <1>12 DEF BindingRecorded, Return, TypeOK, RequestTyped
  <2>5. /\ req'[r].op \notin {"package", "geometry"}
        /\ req[r].op = "package" => \A s \in Requests : req[s].op = "package" => s = r
    BY <1>12, CatalogueAssumption DEF BindingRecorded, Return, NoRequest, TypeOK, RequestTyped,
      GatesHeld, InProgress, Kinds, Routing
  <2> QED BY <2>3, <2>4, <2>5 DEF StreamsKnown, StreamExists, At
<1>13. ASSUME NEW r \in Requests, BindingAnswered(r) PROVE StreamsKnown'
  BY <1>13, CatalogueAssumption DEF BindingAnswered, Return, TypeOK, RequestTyped, StreamsKnown,
    StreamExists, At, GateFree, InProgress, NoRequest, Idle, Kinds, Routing, storeVars,
    identityVars, projectionVars
<1>14. ASSUME NEW r \in Requests, NEW q \in Pipelines, NEW n \in Names, WorkspaceBegins(r, q, n)
  PROVE StreamsKnown'
  BY <1>14, CatalogueAssumption DEF WorkspaceBegins, Begin, TypeOK, RequestTyped, StreamsKnown,
    StreamExists, At, GateFree, InProgress, NoRequest, Idle, Kinds, Routing, storeVars,
    identityVars, projectionVars
<1>15. ASSUME NEW r \in Requests, WorkspaceWritten(r) PROVE StreamsKnown'
  <2>1. /\ lastRow' = lastRow + 1 /\ rows' = rows \cup {lastRow + 1}
        /\ req' = [req EXCEPT ![r] = [@ EXCEPT !.step = "written", !.row = lastRow + 1]]
    BY <1>15, WriteEffect DEF IInv, WorkspaceWritten
  <2> QED BY <1>15, <2>1 DEF TypeOK, RequestTyped, StreamsKnown, StreamExists, At, GateFree,
    InProgress, NoRequest, Idle, Kinds, Routing, storeVars, identityVars, projectionVars,
    WorkspaceWritten
<1>16. ASSUME NEW r \in Requests, WorkspaceRefused(r) PROVE StreamsKnown'
  BY <1>16, CatalogueAssumption DEF WorkspaceRefused, Return, TypeOK, RequestTyped, StreamsKnown,
    StreamExists, At, GateFree, InProgress, NoRequest, Idle, Kinds, Routing, storeVars,
    identityVars, projectionVars
<1>17. ASSUME NEW r \in Requests, NEW o \in Outcomes, WorkspaceRecorded(r, o) PROVE StreamsKnown'
  <2>1. Record(r, o) /\ req[r].op # None
    BY <1>17, CatalogueAssumption DEF InProgress, Kinds, Routing, WorkspaceRecorded
  <2>2. log' = log \/ Recorded(r)
    BY <2>1, RecordedOrNot
  <2>3. /\ \A i \in DOMAIN log : i \in DOMAIN log' /\ log'[i] = log[i]
        /\ \A i \in DOMAIN log' : (i \in DOMAIN log /\ log'[i] = log[i]) \/ log'[i].kind = req[r].op
    BY <2>2 DEF TypeOK, LogTyped, Recorded
  <2>4. \A s \in Requests : s # r => req'[s] = req[s]
    BY <1>17 DEF WorkspaceRecorded, Return, TypeOK, RequestTyped
  <2>5. /\ req'[r].op \notin {"package", "geometry"}
        /\ req[r].op = "package" => \A s \in Requests : req[s].op = "package" => s = r
    BY <1>17, CatalogueAssumption DEF WorkspaceRecorded, Return, NoRequest, TypeOK, RequestTyped,
      GatesHeld, InProgress, Kinds, Routing
  <2> QED BY <2>3, <2>4, <2>5 DEF StreamsKnown, StreamExists, At
<1>18. ASSUME NEW r \in Requests, NEW fails \in BOOLEAN, WorkspaceCleaned(r, fails) PROVE
  StreamsKnown'
  BY <1>18, CatalogueAssumption DEF WorkspaceCleaned, Return, TypeOK, RequestTyped, StreamsKnown,
    StreamExists, At, GateFree, InProgress, NoRequest, Idle, Kinds, Routing, storeVars,
    identityVars, projectionVars
<1>19. CASE Handle
  BY <1>19, CatalogueAssumption DEF Handle, TypeOK, RequestTyped, StreamsKnown, StreamExists, At,
    GateFree, InProgress, NoRequest, Idle, Kinds, Routing, storeVars, identityVars, projectionVars
<1>20. CASE Reconnect
  BY <1>20, CatalogueAssumption DEF Reconnect, TypeOK, RequestTyped, StreamsKnown, StreamExists, At,
    GateFree, InProgress, NoRequest, Idle, Kinds, Routing, storeVars, identityVars, projectionVars
<1>21. CASE UNCHANGED vars
  BY <1>21, CatalogueAssumption DEF vars, storeVars, identityVars, projectionVars, TypeOK,
    RequestTyped, StreamsKnown, StreamExists, At, GateFree, InProgress, NoRequest, Idle, Kinds,
    Routing, storeVars, identityVars, projectionVars
<1> QED BY <1>1, <1>2, <1>3, <1>4, <1>5, <1>6, <1>7, <1>8, <1>9, <1>10, <1>11, <1>12, <1>13, <1>14,
  <1>15, <1>16, <1>17, <1>18, <1>19, <1>20, <1>21 DEF Next, CreateCategory, CreatePackage,
  ReplaceGeometry, ChangeBinding, AddWorkspace

LEMMA QuietListing ==
  ASSUME TypeOK, ListedKnows, LogSteps, listed' = listed, position' \in Nat, position' <= position
  PROVE  ListedKnows'
<1>0. Len(log) \in Nat /\ position \in Nat /\ position <= Len(log)
  <2>1. Len(log) \in Nat
    BY DEF TypeOK, LogTyped
  <2> QED BY <2>1 DEF TypeOK, ListingTyped
<1>1. CASE log' = log
  <2>1. \A kinds, p : At(kinds, p)' = At(kinds, p)
    BY <1>1 DEF At
  <2>2. \A kinds, p : \A i \in At(kinds, p) : i \in Nat
    BY DEF At, TypeOK, LogTyped
  <2>3. \A kinds, p : \A i \in At(kinds, p) : i <= position' => i <= position
    BY <1>0, <2>2
  <2> QED BY <1>1, <2>1, <2>3 DEF ListedKnows
<1>2. ASSUME NEW r \in Requests, Grown(r) PROVE ListedKnows'
  <2>1. \A kinds, p : \A i \in At(kinds, p)' : i \in At(kinds, p) \/ i = Len(log) + 1
    BY <1>2, AtGrows DEF TypeOK
  <2>2. \A kinds, p : At(kinds, p) \subseteq At(kinds, p)'
    BY <1>2, AtGrows DEF TypeOK
  <2>3. \A kinds, p : \A i \in At(kinds, p) : i \in DOMAIN log /\ i \in Nat /\ log'[i] = log[i]
    BY <1>2, GrownLog DEF At, TypeOK, LogTyped
  <2>4. \A kinds, p : \A i \in At(kinds, p)' : i <= position' => i \in At(kinds, p) /\ i <= position
    BY <1>0, <2>1, <2>3
  <2> SUFFICES ASSUME NEW p \in Packages
               PROVE  /\ \A i \in At({"package"}, p)' : i <= position' => listed[p] # 0
                      /\ listed[p] # 0 => \E i \in At(Areas, p)' : listed[p] = log'[i].row
                      /\ \A i \in At(Areas, p)' :
                           i <= position' /\ (\A j \in At(Areas, p)' : j <= i) => listed[p] = log'[i].row
    BY DEF ListedKnows
  <2>5. \A i \in At({"package"}, p)' : i <= position' => listed[p] # 0
    BY <2>4 DEF ListedKnows
  <2>6. listed[p] # 0 => \E i \in At(Areas, p)' : listed[p] = log'[i].row
    BY <2>2, <2>3 DEF ListedKnows
  <2>7. ASSUME NEW i \in At(Areas, p)', i <= position', \A j \in At(Areas, p)' : j <= i
        PROVE  listed[p] = log'[i].row
    BY <2>2, <2>3, <2>4, <2>7 DEF ListedKnows
  <2> QED BY <2>5, <2>6, <2>7
<1> QED BY <1>1, <1>2 DEF LogSteps

LEMMA HandledListing ==
  ASSUME TypeOK, LogKnows, PackagesFirst, ListedKnows, Handle PROVE ListedKnows'
<1> DEFINE n == position + 1
           e == log[n]
<1>1. n \in DOMAIN log /\ position' = n /\ log' = log /\ position \in Nat
  BY DEF Handle, TypeOK, LogTyped, ListingTyped
<1>2. listed' = IF \/ e.kind = "package" /\ listed[e.key] = 0
                   \/ e.kind = "geometry" /\ listed[e.key] # 0
                THEN [listed EXCEPT ![e.key] = e.row] ELSE listed
  BY <1>1 DEF Handle
<1> HIDE DEF e
<1> SUFFICES ASSUME NEW p \in Packages
             PROVE  /\ \A i \in At({"package"}, p) : i <= n => listed'[p] # 0
                    /\ listed'[p] # 0 => \E i \in At(Areas, p) : listed'[p] = log[i].row
                    /\ \A i \in At(Areas, p) :
                         i <= n /\ (\A j \in At(Areas, p) : j <= i) => listed'[p] = log[i].row
  BY <1>1 DEF ListedKnows, At
<1>3. \A i \in At(Areas, p) : i \in DOMAIN log /\ i \in Nat /\ log[i].key = p /\ log[i].kind \in Areas
  BY DEF At, TypeOK, LogTyped
<1>4. \A i \in At({"package"}, p) : i \in At(Areas, p) /\ log[i].kind = "package"
  BY DEF At, Areas
<1>5. n \in At(Areas, p) <=> e.kind \in Areas /\ e.key = p
  BY <1>1 DEF At, e
<1>6. listed \in [Packages -> Nat]
  BY DEF TypeOK, ListingTyped
<1>7. CASE n \notin At(Areas, p)
  <2>1. listed'[p] = listed[p]
    BY <1>2, <1>5, <1>6, <1>7 DEF Areas
  <2>2. \A i \in At(Areas, p) : i <= n => i <= position
    BY <1>1, <1>3, <1>7
  <2> QED BY <1>4, <2>1, <2>2 DEF ListedKnows
<1>8. CASE n \in At(Areas, p)
  <2>0. e.key = p /\ e.kind \in Areas /\ e.row # 0 /\ e = log[n]
    BY <1>1, <1>5, <1>8 DEF LogKnows, e
  <2>1. e.kind = "geometry" => listed[p] # 0
    <3>1. SUFFICES ASSUME e.kind = "geometry" PROVE listed[p] # 0
      OBVIOUS
    <3>2. PICK j \in At({"package"}, p) : j < n
      BY <1>1, <2>0, <3>1 DEF PackagesFirst
    <3>3. j <= position
      BY <1>1, <1>3, <1>4, <3>2
    <3> QED BY <3>2, <3>3 DEF ListedKnows
  <2>2. listed'[p] = IF e.kind = "geometry" \/ listed[p] = 0 THEN e.row ELSE listed[p]
    BY <1>2, <1>6, <2>0, <2>1 DEF Areas
  <2>3. listed'[p] # 0
    BY <2>0, <2>2
  <2>4. \E i \in At(Areas, p) : listed'[p] = log[i].row
    BY <1>8, <2>0, <2>2 DEF ListedKnows
  <2>5. ASSUME NEW i \in At(Areas, p), i <= n, \A j \in At(Areas, p) : j <= i
        PROVE  listed'[p] = log[i].row
    <3>1. i = n
      BY <1>1, <1>3, <1>8, <2>5
    <3>2. CASE e.kind = "geometry" \/ listed[p] = 0
      BY <2>0, <2>2, <3>1, <3>2
    <3>3. CASE e.kind = "package" /\ listed[p] # 0
      <4>1. PICK k \in At(Areas, p) : listed[p] = log[k].row
        BY <3>3 DEF ListedKnows
      <4>2. k <= n
        BY <2>5, <3>1
      <4>3. k = n
        <5>1. CASE log[k].kind = "package"
          BY <1>1, <1>3, <2>0, <3>3, <5>1 DEF PackagesFirst
        <5>2. CASE log[k].kind = "geometry"
          <6>1. PICK j \in At({"package"}, p) : j < k
            BY <1>3, <5>2 DEF PackagesFirst
          <6>2. j = n
            BY <1>1, <1>3, <1>4, <2>0, <3>3 DEF PackagesFirst
          <6> QED BY <1>1, <1>3, <4>2, <6>1, <6>2
        <5> QED BY <1>3, <5>1, <5>2 DEF Areas
      <4> QED BY <2>0, <2>2, <3>1, <3>3, <4>1, <4>3
    <3> QED BY <2>0, <3>2, <3>3 DEF Areas
  <2> QED BY <2>3, <2>4, <2>5
<1> QED BY <1>7, <1>8

-----------------------------------------------------------------------------
LEMMA ListedNext ==
  ASSUME TypeOK, RequestKnows, LogKnows, PackagesFirst, ListedKnows, [Next]_vars PROVE ListedKnows'
<1>0. position \in Nat
  BY DEF TypeOK, ListingTyped
<1>1. ASSUME NEW r \in Requests, NEW c \in Categories, NEW x \in Prefixes, CategoryChecked(r, c, x)
  PROVE ListedKnows'
  BY <1>1, <1>0, LogGrows, QuietListing DEF projectionVars, CategoryChecked
<1>2. ASSUME NEW r \in Requests, NEW o \in Outcomes, CategoryRecorded(r, o) PROVE ListedKnows'
  BY <1>2, <1>0, LogGrows, QuietListing DEF projectionVars, CategoryRecorded
<1>3. ASSUME NEW r \in Requests, NEW p \in Packages, NEW c \in Categories, NEW published \in
  BOOLEAN, NEW id \in ShortIds, PackageBegins(r, p, c, published, id) PROVE ListedKnows'
  BY <1>3, <1>0, LogGrows, QuietListing DEF projectionVars, PackageBegins
<1>4. ASSUME NEW r \in Requests, PackageWritten(r) PROVE ListedKnows'
  BY <1>4, <1>0, LogGrows, QuietListing DEF projectionVars, PackageWritten
<1>5. ASSUME NEW r \in Requests, PackageRefused(r) PROVE ListedKnows'
  BY <1>5, <1>0, LogGrows, QuietListing DEF projectionVars, PackageRefused
<1>6. ASSUME NEW r \in Requests, NEW o \in Outcomes, PackageRecorded(r, o) PROVE ListedKnows'
  BY <1>6, <1>0, LogGrows, QuietListing DEF projectionVars, PackageRecorded
<1>7. ASSUME NEW r \in Requests, NEW p \in Packages, NEW h \in Hashes, ReplacementBegins(r, p, h)
  PROVE ListedKnows'
  BY <1>7, <1>0, LogGrows, QuietListing DEF projectionVars, ReplacementBegins
<1>8. ASSUME NEW r \in Requests, ReplacementWritten(r) PROVE ListedKnows'
  BY <1>8, <1>0, LogGrows, QuietListing DEF projectionVars, ReplacementWritten
<1>9. ASSUME NEW r \in Requests, ReplacementRefused(r) PROVE ListedKnows'
  BY <1>9, <1>0, LogGrows, QuietListing DEF projectionVars, ReplacementRefused
<1>10. ASSUME NEW r \in Requests, NEW o \in Outcomes, ReplacementRecorded(r, o) PROVE ListedKnows'
  BY <1>10, <1>0, LogGrows, QuietListing DEF projectionVars, ReplacementRecorded
<1>11. ASSUME NEW r \in Requests, NEW b \in Bindings, NEW kind \in Routing, BindingBegins(r, b,
  kind) PROVE ListedKnows'
  BY <1>11, <1>0, LogGrows, QuietListing DEF projectionVars, BindingBegins
<1>12. ASSUME NEW r \in Requests, NEW o \in Outcomes, BindingRecorded(r, o) PROVE ListedKnows'
  BY <1>12, <1>0, LogGrows, QuietListing DEF projectionVars, BindingRecorded
<1>13. ASSUME NEW r \in Requests, BindingAnswered(r) PROVE ListedKnows'
  BY <1>13, <1>0, LogGrows, QuietListing DEF projectionVars, BindingAnswered
<1>14. ASSUME NEW r \in Requests, NEW q \in Pipelines, NEW n \in Names, WorkspaceBegins(r, q, n)
  PROVE ListedKnows'
  BY <1>14, <1>0, LogGrows, QuietListing DEF projectionVars, WorkspaceBegins
<1>15. ASSUME NEW r \in Requests, WorkspaceWritten(r) PROVE ListedKnows'
  BY <1>15, <1>0, LogGrows, QuietListing DEF projectionVars, WorkspaceWritten
<1>16. ASSUME NEW r \in Requests, WorkspaceRefused(r) PROVE ListedKnows'
  BY <1>16, <1>0, LogGrows, QuietListing DEF projectionVars, WorkspaceRefused
<1>17. ASSUME NEW r \in Requests, NEW o \in Outcomes, WorkspaceRecorded(r, o) PROVE ListedKnows'
  BY <1>17, <1>0, LogGrows, QuietListing DEF projectionVars, WorkspaceRecorded
<1>18. ASSUME NEW r \in Requests, NEW fails \in BOOLEAN, WorkspaceCleaned(r, fails) PROVE
  ListedKnows'
  BY <1>18, <1>0, LogGrows, QuietListing DEF projectionVars, WorkspaceCleaned
<1>19. CASE Handle
  BY <1>19, HandledListing
<1>20. CASE Reconnect
  BY <1>20, <1>0, LogGrows, QuietListing DEF Reconnect, Start, projectionVars
<1>21. CASE UNCHANGED vars
  BY <1>21, <1>0, LogGrows, QuietListing DEF vars, projectionVars
<1> QED BY <1>1, <1>2, <1>3, <1>4, <1>5, <1>6, <1>7, <1>8, <1>9, <1>10, <1>11, <1>12, <1>13, <1>14,
  <1>15, <1>16, <1>17, <1>18, <1>19, <1>20, <1>21 DEF Next, CreateCategory, CreatePackage,
  ReplaceGeometry, ChangeBinding, AddWorkspace
-----------------------------------------------------------------------------
LEMMA InvInit == Init => IInv
<1> SUFFICES ASSUME Init PROVE IInv
  OBVIOUS
<1>1. log = <<>> /\ Len(log) = 0 /\ DOMAIN log = {}
  BY DEF Init
<1>2. /\ \A r \in Requests : req[r] = NoRequest /\ req[r].op = None /\ req[r].step = None /\ req[r].row = 0
      /\ None \notin Kinds \cup Steps
  BY CatalogueAssumption DEF Init, NoRequest
<1>3. TypeOK
  <2>1. LogTyped
    BY <1>1 DEF Init, LogTyped
  <2>2. IdentityTyped
    BY CatalogueAssumption DEF Init, IdentityTyped
  <2>3. ListingTyped
    BY <1>1 DEF Init, ListingTyped
  <2>4. RequestTyped
    BY DEF Init, RequestTyped, NoRequest, Values
  <2> QED BY <2>1, <2>2, <2>3, <2>4 DEF TypeOK
<1>4. \A kinds, key : At(kinds, key) = {}
  BY <1>1 DEF At
<1>5. RequestKnows /\ GatesHeld /\ IdsTaken /\ PositionsKnown /\ RowsOwned /\ StreamsKnown
  BY <1>1, <1>2 DEF RequestKnows, GatesHeld, IdsTaken, PositionsKnown, RowsOwned, StreamsKnown,
    Kinds, Steps, Routing
<1>6. LogKnows /\ CategoriesOnce /\ ShortIdsUnique /\ PackagesFirst
  BY <1>1 DEF LogKnows, CategoriesOnce, ShortIdsUnique, PackagesFirst
<1>7. ReferencesStored /\ NoSilentOrphan
  BY <1>1 DEF Init, ReferencesStored, Referenced, NoSilentOrphan
<1>8. IndexKnows
  BY <1>4 DEF Init, IndexKnows
<1>9. LastExists /\ ListedKnows
  BY <1>4 DEF Init, LastExists, ListedKnows
<1> QED BY <1>3, <1>5, <1>6, <1>7, <1>8, <1>9 DEF IInv

LEMMA InvNext == IInv /\ [Next]_vars => IInv'
<1> SUFFICES ASSUME IInv, [Next]_vars PROVE IInv'
  OBVIOUS
<1>0. /\ TypeOK /\ RequestKnows /\ GatesHeld /\ LogKnows /\ CategoriesOnce
      /\ IdsTaken /\ ShortIdsUnique /\ PositionsKnown /\ IndexKnows
      /\ RowsOwned /\ ReferencesStored /\ NoSilentOrphan
      /\ PackagesFirst /\ StreamsKnown /\ LastExists /\ ListedKnows
  BY DEF IInv
<1>1. TypeOK'
  BY <1>0, LogTypedNext, IdentityTypedNext, ListingTypedNext, RequestTypedNext DEF TypeOK
<1>2. RequestKnows'
  BY <1>0, RequestKnowsNext
<1>3. GatesHeld'
  BY <1>1, GatesNext
<1>4. LogKnows' /\ CategoriesOnce'
  BY <1>0, LogKnowsNext, CategoriesNext
<1>5. IdsTaken' /\ ShortIdsUnique'
  BY <1>0, IdsTakenNext, IdsUniqueNext
<1>6. PositionsKnown' /\ IndexKnows'
  BY <1>0, PositionsNext, IndexNext
<1>7. RowsOwned'
  BY <1>0, RowsNext
<1>8. ReferencesStored' /\ NoSilentOrphan'
  BY <1>0, StoredNext, OrphanNext
<1>9. PackagesFirst' /\ StreamsKnown'
  BY <1>0, FirstNext, StreamsNext
<1>10. LastExists' /\ ListedKnows'
  BY <1>0, LastNext, ListedNext
<1> QED BY <1>1, <1>2, <1>3, <1>4, <1>5, <1>6, <1>7, <1>8, <1>9, <1>10 DEF IInv

LEMMA Invariance == Spec => []IInv
BY InvInit, InvNext, PTL DEF Spec

\* Every variable has its type.
THEOREM CatalogueTyped == Spec => []TypeOK
<1>1. IInv => TypeOK
  BY DEF IInv
<1> QED BY Invariance, <1>1, PTL

\* The assignment index is never behind an event that the subscription has handled
\* or a client was answered for.
THEOREM IndexNeverBehind == Spec => []IndexKnows
<1>1. IInv => IndexKnows
  BY DEF IInv
<1> QED BY Invariance, <1>1, PTL

\* Two packages never share a short id: one that may have been recorded is not
\* given back.
THEOREM UniqueShortIds == Spec => []ShortIdsUnique
<1>1. IInv => ShortIdsUnique
  BY DEF IInv
<1> QED BY Invariance, <1>1, PTL

\* Cleaning up never deletes a row that an event refers to.
THEOREM StoredReferences == Spec => []ReferencesStored
<1>1. IInv => ReferencesStored
  BY DEF IInv
<1> QED BY Invariance, <1>1, PTL

\* A row that nothing refers to was named by a logged error, or a request still
\* holds it.
THEOREM OrphansReported == Spec => []NoSilentOrphan
<1>1. IInv => NoSilentOrphan
  BY DEF IInv
<1> QED BY Invariance, <1>1, PTL

\* A subscription that has handled the whole log has listed every package's last
\* area.
THEOREM ListingIsCurrent == Spec => []ListingCatchesUp
<1>1. IInv => ListingCatchesUp
  <2> SUFFICES ASSUME TypeOK, LastExists, ListedKnows, position = Len(log), NEW p \in Packages
               PROVE  listed[p] = CurrentRow(p)
    BY DEF IInv, ListingCatchesUp
  <2>1. CurrentRow(p) = LET i == Last(At(Areas, p)) IN IF i = 0 THEN 0 ELSE log[i].row
    BY DEF CurrentRow, Areas
  <2>2. At(Areas, p) \subseteq DOMAIN log /\ \A i \in DOMAIN log : i \in Nat /\ i # 0 /\ i <= position
    BY DEF TypeOK, LogTyped, At
  <2>3. CASE At(Areas, p) = {}
    <3>1. listed[p] = 0
      BY <2>3 DEF ListedKnows
    <3> QED BY <2>1, <2>3, <3>1 DEF Last
  <2>4. CASE At(Areas, p) # {}
    <3>1. PICK i \in At(Areas, p) : \A j \in At(Areas, p) : j <= i
      BY <2>4 DEF LastExists
    <3>2. \A k \in At(Areas, p) : (\A j \in At(Areas, p) : j <= k) => k = i
      BY <2>2, <3>1
    <3>3. Last(At(Areas, p)) = i
      BY <2>4, <3>1, <3>2 DEF Last
    <3>4. listed[p] = log[i].row
      BY <2>2, <3>1 DEF ListedKnows
    <3> QED BY <2>1, <2>2, <3>1, <3>3, <3>4
  <2> QED BY <2>3, <2>4
<1> QED BY Invariance, <1>1, PTL
=============================================================================
