-------------------------- MODULE CatalogueRouting --------------------------
(***************************************************************************)
(* Assignments of packages to pipelines, workspaces, and the subscription  *)
(* that projects the log into the listings.  The assignment index is       *)
(* written by both: by a request once its event is stored, so that its     *)
(* client sees the assignment at once, and by the subscription, which may  *)
(* come to the same event much later.                                      *)
(***************************************************************************)
EXTENDS CataloguePackages

-----------------------------------------------------------------------------
(* Assignments.                                                            *)

\* Mutants of Update: the last writer wins; the position of the next event.
UpdateAlways(b, active, i) ==
    index' = [index EXCEPT ![b] = [active |-> active, at |-> i]]
UpdatePast(b, active, i) == UpdateAlways(b, active, i + 1)

\* The index keeps the update with the higher position.
Update(b, active, i) ==
    index' = IF i > index[b].at
             THEN [index EXCEPT ![b] = [active |-> active, at |-> i]]
             ELSE index

\* Assigning needs both streams and refuses an active binding; removing an
\* inactive one does nothing.
BindingBegins(r, b, kind) ==
    /\ GateFree(Routing)
    /\ StreamExists("package", b[1])
    /\ IsActive(b) # (kind = "bound")
    /\ Begin(r, kind, b, None)
    /\ UNCHANGED <<log, storeVars, identityVars, projectionVars,
                   position, acked, reported>>

\* Bind, RestoreBinding or Unbind; only a success goes on to the index.
BindingRecorded(r, outcome) ==
    /\ req[r].op \in Routing /\ req[r].step = "begun"
    /\ Record(r, outcome)
    /\ IF outcome = "stored"
       THEN req' = [req EXCEPT ![r].step = "recorded", ![r].row = Len(log')]
       ELSE Return(r)
    /\ UNCHANGED <<storeVars, identityVars, projectionVars, position,
                   acked, reported>>

BindingAnswered(r) ==
    /\ req[r].op \in Routing /\ req[r].step = "recorded"
    /\ Update(req[r].key, req[r].op = "bound", req[r].row)
    /\ acked' = acked \cup {req[r].row}
    /\ Return(r)
    /\ UNCHANGED <<log, storeVars, identityVars, prefixes, listed,
                   position, reported>>

-----------------------------------------------------------------------------
(* Workspaces.                                                             *)

NameTaken(q, n) ==
    \E i \in At({"workspace"}, q) : log[i].value = n

WorkspaceBegins(r, q, n) ==
    /\ GateFree({"workspace"})
    /\ ~NameTaken(q, n)
    /\ Begin(r, "workspace", q, n)
    /\ UNCHANGED <<log, storeVars, identityVars, projectionVars,
                   position, acked, reported>>

WorkspaceWritten(r) ==
    /\ InProgress(r, "workspace", "begun")
    /\ WriteRow(r)
    /\ UNCHANGED <<log, identityVars, projectionVars, position,
                   acked, reported>>

WorkspaceRefused(r) ==
    /\ "geometry" \in Events
    /\ InProgress(r, "workspace", "begun")
    /\ Return(r)
    /\ UNCHANGED <<log, storeVars, identityVars, projectionVars,
                   position, acked, reported>>

WorkspaceRecorded(r, outcome) ==
    /\ InProgress(r, "workspace", "written")
    /\ Record(r, outcome)
    /\ IF outcome = "stored"
       THEN Return(r)
       ELSE req' = [req EXCEPT ![r].step = "failed"]
    /\ UNCHANGED <<storeVars, identityVars, projectionVars, position,
                   acked, reported>>

\* Mutant of Unconfirmed: the clean-up takes the failure at its word.
AssumeUnrecorded(r) == TRUE

\* After a failure that may be ambiguous the pipeline is loaded again, and the
\* row is deleted if no workspace refers to it.
Unconfirmed(r) ==
    \A i \in At({"workspace"}, req[r].key) : log[i].row # req[r].row

WorkspaceCleaned(r, fails) ==
    /\ InProgress(r, "workspace", "failed")
    /\ fails => "cleanup" \in Events
    /\ rows' = IF Unconfirmed(r) /\ ~fails THEN rows \ {req[r].row} ELSE rows
    /\ Report(r, "unknown")
    /\ Return(r)
    /\ UNCHANGED <<log, lastRow, identityVars, projectionVars,
                   position, acked>>

-----------------------------------------------------------------------------
(* The subscription.                                                       *)

\* One handler after the other sees the next event of the log.
Handle ==
    /\ position < Len(log)
    /\ position' = position + 1
    /\ LET e == log[position'] IN
       /\ IF e.kind \in Routing
          THEN Update(e.key, e.kind = "bound", position')
          ELSE index' = index
       /\ prefixes' = IF e.kind = "category" THEN prefixes \cup {e.value}
                      ELSE prefixes
       /\ listed' = IF \/ e.kind = "package" /\ listed[e.key] = 0
                       \/ e.kind = "geometry" /\ listed[e.key] # 0
                    THEN [listed EXCEPT ![e.key] = e.row]
                    ELSE listed
    /\ UNCHANGED <<log, storeVars, identityVars, req, acked,
                   reported>>

\* Mutant of Start: a new run begins with what comes after it.
StartLatest == {Len(log)}

\* A run that fails is replaced, once its pump has ended, by one that starts
\* after the last checkpoint stored; later events are handled again.
Start == 0 .. position - 1

Reconnect ==
    /\ "reconnect" \in Events
    /\ position' \in Start
    /\ UNCHANGED <<log, storeVars, identityVars, projectionVars, req, acked,
                   reported>>
=============================================================================
