----------------------------- MODULE Catalogue ------------------------------
(***************************************************************************)
(* The Data Catalogue API: its requests, its subscription, and what they   *)
(* promise together.                                                       *)
(***************************************************************************)
EXTENDS CatalogueRouting

CreateCategory(r) ==
    \/ \E c \in Categories, x \in Prefixes : CategoryChecked(r, c, x)
    \/ \E o \in Outcomes : CategoryRecorded(r, o)

CreatePackage(r) ==
    \/ \E p \in Packages, c \in Categories, published \in BOOLEAN, id \in ShortIds :
          PackageBegins(r, p, c, published, id)
    \/ PackageWritten(r)
    \/ PackageRefused(r)
    \/ \E o \in Outcomes : PackageRecorded(r, o)

ReplaceGeometry(r) ==
    \/ \E p \in Packages, h \in Hashes : ReplacementBegins(r, p, h)
    \/ ReplacementWritten(r)
    \/ ReplacementRefused(r)
    \/ \E o \in Outcomes : ReplacementRecorded(r, o)

ChangeBinding(r) ==
    \/ \E b \in Bindings, kind \in Routing : BindingBegins(r, b, kind)
    \/ \E o \in Outcomes : BindingRecorded(r, o)
    \/ BindingAnswered(r)

AddWorkspace(r) ==
    \/ \E q \in Pipelines, n \in Names : WorkspaceBegins(r, q, n)
    \/ WorkspaceWritten(r)
    \/ WorkspaceRefused(r)
    \/ \E o \in Outcomes : WorkspaceRecorded(r, o)
    \/ \E fails \in BOOLEAN : WorkspaceCleaned(r, fails)

Next ==
    \/ \E r \in Requests :
        \/ CreateCategory(r) \/ CreatePackage(r) \/ ReplaceGeometry(r)
        \/ ChangeBinding(r) \/ AddWorkspace(r)
    \/ Handle
    \/ Reconnect

Spec == Init /\ [][Next]_vars
-----------------------------------------------------------------------------
Entries == [kind : Kinds, key : Keys, value : Values, row : Nat]

LogTyped ==
    /\ log \in Seq(Entries)
    /\ lastRow \in Nat /\ \A i \in DOMAIN log : log[i].row \in 0 .. lastRow
    /\ \A row \in rows \cup reported : row \in Nat /\ 0 < row /\ row <= lastRow

IdentityTyped ==
    /\ taken \subseteq ShortIds
    /\ next \in [Prefixes -> 0 .. MaxNumber + 1]

ListingTyped ==
    /\ index \in [Bindings -> [active : BOOLEAN, at : Nat]]
    /\ \A b \in Bindings : index[b].at <= Len(log)
    /\ prefixes \subseteq Prefixes
    /\ listed \in [Packages -> Nat] /\ \A p \in Packages : listed[p] <= lastRow
    /\ position \in 0 .. Len(log)
    /\ acked \subseteq 1 .. Len(log)

RequestTyped ==
    req \in [Requests -> [op : Kinds \cup {None}, step : Steps \cup {None},
                         key : Keys \cup {None}, value : Values, row : Nat]]

\* Every variable has its type.
TypeOK == LogTyped /\ IdentityTyped /\ ListingTyped /\ RequestTyped

\* The index never falls behind what it was told: it shows the state that the
\* binding had after an event which is no older than any event the subscription
\* has handled or a client has been answered for, so a delayed projection does
\* not bring a removed assignment back.
IndexKnows ==
    \A b \in Bindings :
        LET k == index[b].at IN
        /\ \A i \in At(Routing, b) : i <= position \/ i \in acked => i <= k
        /\ IF k = 0 THEN ~index[b].active
           ELSE /\ k \in At(Routing, b)
                /\ index[b].active = (log[k].kind = "bound")

\* Two packages never share a short id, also when the command that recorded the
\* first one was reported as failed.
ShortIdsUnique ==
    \A i, j \in DOMAIN log :
        /\ log[i].kind = "package" /\ log[j].kind = "package"
        /\ log[i].value = log[j].value
        => i = j

\* What an event refers to is in the geodatabase: cleaning up after a failure
\* never deletes the row of a workspace that was recorded after all.
ReferencesStored == Referenced \subseteq rows

\* A row nothing refers to is still in the hands of a request, or the log names
\* it, so that it can be found.
NoSilentOrphan ==
    \A row \in rows :
        \/ row \in Referenced \cup reported
        \/ \E r \in Requests : req[r].row = row /\ req[r].op \notin Routing

\* Once the subscription has handled the whole log, the listing shows each
\* package with the area it has now, however often it had to start again.
ListingCatchesUp ==
    position = Len(log) => \A p \in Packages : listed[p] = CurrentRow(p)

=============================================================================
