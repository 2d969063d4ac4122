---------------------------- MODULE ReviewSession ----------------------------
(***************************************************************************)
(* The Review page: its Product session (createReviewProductSession), the  *)
(* user's edits of the composition, and the freshness monitor beside them. *)
(*                                                                         *)
(* A payload is represented by the oldest revision among what was read for *)
(* it, and by whether an error stands in the place of a part that could    *)
(* not be read. A load that no record owns any more has no effect and is   *)
(* left out.                                                               *)
(***************************************************************************)
EXTENDS FreshnessMonitor

CONSTANTS
  Packages,  \* the Products that are package work units
  MaxEdits   \* bound on the user's edits

ASSUME ReviewAssumption == Packages \subseteq Products /\ MaxEdits \in Nat

VARIABLES
  items,    \* the composition
  enabled,  \* its enabled Products
  records,  \* records and payloads
  wanted,   \* the composition whose resolution is awaited
  edits     \* how many edits there were

sessionVars == <<items, enabled, records, wanted, edits>>

vars == <<monitorVars, sessionVars>>

Record ==
  [present : BOOLEAN, shown : 0..MaxRevision, partial : BOOLEAN, failed : BOOLEAN,
   operation : {"none", "ready", "load"}, asked : 0..MaxRevision, batch : SUBSET Products]

NoRecord ==
  [present |-> FALSE, shown |-> 0, partial |-> FALSE, failed |-> FALSE,
   operation |-> "none", asked |-> 0, batch |-> {}]

Composition == [items : SUBSET Products, enabled : SUBSET Products, full : BOOLEAN, open : BOOLEAN]

NotWanted == [items |-> {}, enabled |-> {}, full |-> FALSE, open |-> FALSE]

\* productSession.getItems: the requested composition.
Requested == IF wanted.open THEN wanted ELSE [NotWanted EXCEPT !.items = items, !.enabled = enabled]

\* A record that loads for the first time, visibly.
FirstLoad(r) == r.shown = 0 /\ ~r.failed

Idle(r) == [r EXCEPT !.operation = "none", !.asked = 0, !.batch = {}]

\* The check's view of a refresh: the Products that lose their record or
\* their operation are not accepted.
Revoked(check, lost, dropped) ==
  [check EXCEPT !.done =
     [p \in DOMAIN check.done |->
        IF p \in lost \/ (p \in dropped /\ check.done[p] = "wait") THEN "no" ELSE check.done[p]]]

-----------------------------------------------------------------------------
(* Edits. *)

\* reconcile up to resolveItems: a full load forgets all records; a removed
\* Product and a disabled package lose their operation at once.
Reconcile(next, on, full) ==
  LET whole   == full \/ edits = 0
      lost    == IF whole THEN Products ELSE Products \ next
      dropped == Packages \ on
  IN /\ ~disposed
     /\ edits < MaxEdits
     /\ edits' = edits + 1
     /\ wanted' = [items |-> next, enabled |-> on, full |-> whole, open |-> TRUE]
     /\ records' = [p \in Products |-> IF p \in lost THEN NoRecord
                                       ELSE IF p \in dropped THEN Idle(records[p])
                                       ELSE records[p]]
     /\ chk' = Revoked(chk, lost, dropped)
     /\ UNCHANGED <<revision, baseline, recovery, recoveryKeys, prime, additional, disposed, events,
                    items, enabled>>

Add(p) ==
  /\ p \notin Requested.items
  /\ Reconcile(Requested.items \cup {p}, Requested.enabled \cup {p}, FALSE)

Remove(p) ==
  /\ p \in Requested.items
  /\ Reconcile(Requested.items \ {p}, Requested.enabled \ {p}, FALSE)

Disable(p) ==
  /\ "disable" \in events
  /\ p \in Requested.enabled
  /\ Reconcile(Requested.items, Requested.enabled \ {p}, FALSE)

Enable(p) ==
  /\ p \in Requested.items \ Requested.enabled
  /\ Reconcile(Requested.items, Requested.enabled \cup {p}, FALSE)

\* Manual Refresh.
Refresh == Reconcile(Requested.items, Requested.enabled, TRUE)

\* A route is opened, or another one replaces it.
Replace(next) == Reconcile(next, next, TRUE)

-----------------------------------------------------------------------------
(* Loading. *)

\* reconcile after resolveItems. Records of which the resolution no longer
\* holds are replaced. Enabled Products without content start to load, after
\* prepare has primed their revisions.
Compose(lost) ==
  LET kept     == [p \in Products |->
                     IF p \notin wanted.items \/ p \in lost THEN NoRecord
                     ELSE IF p \in Packages \ wanted.enabled THEN Idle(records[p])
                     ELSE records[p]]
      starting == {p \in wanted.enabled : FirstLoad(kept[p]) /\ kept[p].operation = "none"}
      check    == Revoked(chk, lost, Packages \ wanted.enabled)
  IN /\ wanted.open /\ ~disposed
     /\ lost \subseteq {p \in wanted.items : records[p].present}
     /\ lost # {} => "resolution" \in events
     /\ items' = wanted.items
     /\ enabled' = wanted.enabled
     /\ wanted' = NotWanted
     /\ records' = [p \in Products |->
                      IF p \in starting
                      THEN [kept[p] EXCEPT !.present = TRUE, !.operation = "ready", !.batch = starting]
                      ELSE [kept[p] EXCEPT !.present = p \in wanted.items]]
     /\ IF wanted.full THEN RetainAndPrime(wanted.items, starting, check)
        ELSE RetainAndAdd(wanted.items, starting, check)
     /\ UNCHANGED <<revision, disposed, events, edits>>

\* prepare is over: the Product is asked for.
LoadStarts(p) ==
  /\ records[p].operation = "ready"
  /\ prime = Nothing
  /\ records[p].batch \cap Priming = {}
  /\ records' = [records EXCEPT ![p].operation = "load", ![p].asked = revision[p], ![p].batch = {}]
  /\ UNCHANGED <<monitorVars, items, enabled, wanted, edits>>

\* A load of the check's own refresh tells it how it ended.
Told(p, outcome) ==
  chk' = IF p \in DOMAIN chk.done /\ chk.done[p] = "wait"
         THEN [chk EXCEPT !.done[p] = outcome] ELSE chk

\* The payload that a load returns replaces the one there is, and is accepted,
\* also by the refresh of a check.
Publish(p, partial) ==
  /\ records[p].operation = "load"
  /\ \E seen \in records[p].asked..revision[p] :
       records' = [records EXCEPT ![p] = [Idle(records[p]) EXCEPT
                                            !.shown = seen, !.partial = partial, !.failed = FALSE]]
  /\ Told(p, "ok")
  /\ UNCHANGED <<revision, baseline, recovery, recoveryKeys, prime, additional, disposed, events,
                 items, enabled, wanted, edits>>

Loaded(p) == Publish(p, FALSE)

\* The History or the artifacts, of a member of a package too, cannot be read:
\* the loader returns the Product all the same, with an error in their place.
LoadedInPart(p) == "content" \in events /\ Publish(p, TRUE)

\* The loader rejects, or cannot resolve the Product. A first load shows its
\* failure; a refresh keeps what is shown.
LoadFails(p) ==
  /\ "load" \in events
  /\ records[p].operation = "load"
  /\ records' = [records EXCEPT ![p] = [Idle(records[p]) EXCEPT
                                          !.failed = @ \/ FirstLoad(records[p])]]
  /\ Told(p, "no")
  /\ UNCHANGED <<revision, baseline, recovery, recoveryKeys, prime, additional, disposed, events,
                 items, enabled, wanted, edits>>

-----------------------------------------------------------------------------
(* The check, and refresh as its onChanged. *)

Check == CheckStarts(enabled, items) /\ UNCHANGED sessionVars

\* Mutant of CanRefresh: a load under way serves the refresh as well.
CanShareLoad(names) ==
  names \subseteq enabled /\ \A p \in names : records[p].present

\* refresh declines unless all are enabled and none is loading.
CanRefresh(names) ==
  names \subseteq enabled /\ \A p \in names : records[p].present /\ records[p].operation = "none"

Answer ==
  \E answer \in Answers(chk.seen) :
    LET names      == ChangedIn(answer)
        publishing == names # {} /\ CanRefresh(names)
    IN /\ CheckAnswers(items, answer, publishing)
       /\ records' = [p \in Products |->
                        IF publishing /\ p \in names /\ records[p].operation = "none"
                        THEN [records[p] EXCEPT !.operation = "load", !.asked = revision[p]]
                        ELSE records[p]]
       /\ UNCHANGED <<items, enabled, wanted, edits>>

NoAnswer == CheckEndsInVain /\ UNCHANGED sessionVars

Finish ==
  /\ \A p \in chk.changed : chk.done[p] # "wait"
  /\ CheckFinishes(chk.changed \subseteq enabled /\ \A p \in chk.changed : chk.done[p] = "ok")
  /\ UNCHANGED sessionVars

\* The page is left.
Leave ==
  /\ ~disposed
  /\ DestroyMonitor
  /\ items' = {} /\ enabled' = {} /\ wanted' = NotWanted
  /\ records' = [p \in Products |-> NoRecord]
  /\ UNCHANGED edits

-----------------------------------------------------------------------------

Init ==
  /\ InitMonitor
  /\ items = {} /\ enabled = {} /\ wanted = NotWanted
  /\ records = [p \in Products |-> NoRecord]
  /\ edits = 0

Edits ==
  \/ \E p \in Products : Add(p) \/ Remove(p) \/ Disable(p) \/ Enable(p)
  \/ Refresh
  \/ \E next \in SUBSET Products : Replace(next)

Primed ==
  \/ PrimeAnswers /\ UNCHANGED sessionVars
  \/ PrimeFails /\ UNCHANGED sessionVars

Added ==
  \/ AdditionalAnswers(items) /\ UNCHANGED sessionVars
  \/ AdditionalFails /\ UNCHANGED sessionVars

Next ==
  \/ Edits
  \/ \E lost \in SUBSET items : Compose(lost)
  \/ \E p \in Products : LoadStarts(p) \/ Loaded(p) \/ LoadedInPart(p) \/ LoadFails(p)
  \/ Primed
  \/ Added
  \/ Check \/ Answer \/ NoAnswer \/ Finish
  \/ \E p \in Products : Change(p) /\ UNCHANGED sessionVars
  \/ Leave

Spec == Init /\ [][Next]_vars

\* Promises settle and the timer ticks; a request that is made again and
\* again is answered some time, if only in part.
FairSpec ==
  /\ Spec
  /\ WF_vars(Compose({}))
  /\ WF_vars(Primed)
  /\ WF_vars(Added)
  /\ WF_vars(Check)
  /\ WF_vars(NoAnswer)
  /\ SF_vars(Answer)
  /\ WF_vars(Finish)
  /\ \A p \in Products : WF_vars(LoadStarts(p)) /\ SF_vars(Loaded(p) \/ LoadedInPart(p))

-----------------------------------------------------------------------------
(* Properties. *)

\* The state has its type, and no Product is primed by two requests at once.
TypeOK ==
  /\ events \in Scenarios
  /\ revision \in [Products -> Revisions]
  /\ baseline \in [Products -> 0..MaxRevision]
  /\ recovery \in BOOLEAN
  /\ recoveryKeys \subseteq Products
  /\ prime \in Requests
  /\ additional \subseteq Requests
  /\ \A one, other \in additional : one # other => DOMAIN one \cap DOMAIN other = {}
  /\ chk.stage \in {"idle", "asked", "publishing"}
  /\ chk.live \in BOOLEAN
  /\ chk.seen \in Requests
  /\ chk.changed \subseteq DOMAIN chk.seen
  /\ chk.done \in [chk.changed -> {"wait", "ok", "no"}]
  /\ disposed \in BOOLEAN
  /\ enabled \subseteq items /\ items \subseteq Products
  /\ records \in [Products -> Record]
  /\ wanted \in Composition
  /\ edits \in 0..MaxEdits

\* A revision is acknowledged only for a payload that is at least as new: what
\* the page shows of a Product, with or without an error in the place of what
\* could not be read, is not older than what no later check looks for.
BaselineShown ==
  \A p \in Products : records[p].shown # 0 => baseline[p] <= records[p].shown

\* A Product with content has a baseline to compare with, or something is
\* still to refresh it or give it one - also while it is disabled.
ObligationKept ==
  \A p \in items :
    records[p].shown # 0 =>
      baseline[p] # 0 \/ recovery \/ p \in recoveryKeys \/ p \in DOMAIN prime

\* Once edits and changes end, what an open page shows of a Product was read at
\* its latest revision, and so were the errors in it; or its first load failed.
EventuallyFresh ==
  <>[](disposed \/ \A p \in enabled : records[p].failed \/ records[p].shown = revision[p])

\* What the documentation says: an automatic refresh that fails does not advance
\* the stored revision, so that a later check retries the change.
FailureNotAcknowledged ==
  [][\A p \in Products :
       baseline[p] # 0 /\ baseline'[p] > baseline[p] => ~records'[p].partial]_vars
=============================================================================
