------------------------- MODULE CataloguePackages --------------------------
(***************************************************************************)
(* Requests that create categories and packages.  A request that holds a   *)
(* gate is the only writer of the streams it appends to, so loading a      *)
(* stream and appending to it with the loaded version are one step;        *)
(* everything between two awaits that another request or the subscription  *)
(* can see is a step of its own.                                           *)
(***************************************************************************)
EXTENDS CatalogueState

-----------------------------------------------------------------------------
(* Categories.                                                             *)

\* The prefix is looked up in the listing, which the subscription fills.
CategoryChecked(r, c, x) ==
    /\ x \notin prefixes
    /\ ~StreamExists("category", c)
    /\ Begin(r, "category", c, x)
    /\ UNCHANGED <<log, storeVars, identityVars, projectionVars,
                   position, acked, reported>>

\* The command expects a new stream.
CategoryRecorded(r, outcome) ==
    /\ InProgress(r, "category", "begun")
    /\ LET c == req[r].key
       IN  Record(r, IF StreamExists("category", c) THEN "refused" ELSE outcome)
    /\ Return(r)
    /\ UNCHANGED <<storeVars, identityVars, projectionVars,
                   position, acked, reported>>

-----------------------------------------------------------------------------
(* Packages.                                                               *)

\* What a category's sequence gives next: the first number not taken.
Generated(x, n) ==
    /\ n \in next[x] .. MaxNumber
    /\ <<x, n>> \notin taken
    /\ \A k \in next[x] .. (n - 1) : <<x, k>> \in taken

\* A published notice brings its short id; other sources are given the next.
Reserve(x, published, id) ==
    /\ \/ /\ published
          /\ id \in ({x} \X (0 .. MaxNumber)) \ taken
          /\ next' = next
       \/ /\ ~published
          /\ id[1] = x /\ Generated(x, id[2])
          /\ next' = [next EXCEPT ![x] = id[2] + 1]
    /\ taken' = taken \cup {id}

\* The category's stream must exist, and the package's Nanoid is new.
PackageBegins(r, p, c, published, id) ==
    /\ GateFree({"package"})
    /\ StreamExists("category", c) /\ ~StreamExists("package", p)
    /\ Reserve(log[Last(At({"category"}, c))].value, published, id)
    /\ Begin(r, "package", p, id)
    /\ UNCHANGED <<log, storeVars, projectionVars, position,
                   acked, reported>>

PackageWritten(r) ==
    /\ InProgress(r, "package", "begun")
    /\ WriteRow(r)
    /\ UNCHANGED <<log, identityVars, projectionVars, position,
                   acked, reported>>

\* Mutant of Released: every failure gives the short id back.
ReleasedAlways(r) == {req[r].value}

\* The finally block gives the short id back unless geometry was committed.
Released(r) == IF req[r].step = "begun" THEN {req[r].value} ELSE {}

\* Invalid geometry, a disconnected client or a failed transaction.
PackageRefused(r) ==
    /\ "geometry" \in Events
    /\ InProgress(r, "package", "begun")
    /\ taken' = taken \ Released(r)
    /\ Return(r)
    /\ UNCHANGED <<log, storeVars, next, projectionVars, position,
                   acked, reported>>

\* The command runs even if the client has disconnected.
PackageRecorded(r, outcome) ==
    /\ InProgress(r, "package", "written")
    /\ Record(r, outcome)
    /\ Report(r, outcome)
    /\ taken' = taken \ Released(r)
    /\ Return(r)
    /\ UNCHANGED <<storeVars, next, projectionVars, position, acked>>

\* A request whose fingerprint the stream already has is answered from it.
ReplacementBegins(r, p, h) ==
    /\ GateFree({"geometry"})
    /\ StreamExists("package", p) /\ RequestHash(p) # h
    /\ Begin(r, "geometry", p, h)
    /\ UNCHANGED <<log, storeVars, identityVars, projectionVars,
                   position, acked, reported>>

ReplacementWritten(r) ==
    /\ InProgress(r, "geometry", "begun")
    /\ WriteRow(r)
    /\ UNCHANGED <<log, identityVars, projectionVars, position,
                   acked, reported>>

ReplacementRefused(r) ==
    /\ "geometry" \in Events
    /\ InProgress(r, "geometry", "begun")
    /\ Return(r)
    /\ UNCHANGED <<log, storeVars, identityVars, projectionVars,
                   position, acked, reported>>

\* The rows stay, whatever happens: old events still refer to theirs.
ReplacementRecorded(r, outcome) ==
    /\ InProgress(r, "geometry", "written")
    /\ Record(r, outcome)
    /\ Report(r, outcome)
    /\ Return(r)
    /\ UNCHANGED <<storeVars, identityVars, projectionVars, position,
                   acked>>
=============================================================================
