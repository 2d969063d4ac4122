------------------------ MODULE ReviewSession_proofs ------------------------
(***************************************************************************)
(* The Review page and its freshness monitor, for every set of Products    *)
(* and packages, every bound and every choice of scenarios: types, and,    *)
(* while no Product is disabled when everything is to be refreshed, that a *)
(* revision is acknowledged only for a payload, errors in it included,     *)
(* that was read at that revision or later, and that no Product with       *)
(* content is left unwatched.                                              *)
(*                                                                         *)
(* Neither of the two is inductive, and each needs the other: a Product    *)
(* that is shown and not watched would have any revision acknowledged.     *)
(* IInv also follows the content back to its load and the load back to the *)
(* prime it waited for.                                                    *)
(***************************************************************************)
EXTENDS ReviewSession, TLAPS

-----------------------------------------------------------------------------
(* The inductive invariant. *)

Checks ==
  [stage : {"idle", "asked", "publishing"}, live : BOOLEAN, seen : Requests,
   changed : SUBSET Products, done : UNION {[S -> {"wait", "ok", "no"}] : S \in SUBSET Products}]

Typed == TypeOK /\ chk \in Checks /\ wanted.enabled \subseteq wanted.items

Blank(r) == ~r.present /\ r.shown = 0 /\ r.operation = "none"

\* A Product that is not in the composition has no record; while a full load is
\* awaited no Product has one.  Only events of a scenario that disables Products
\* leave one of them out of the enabled ones.
Composed ==
  /\ \A p \in Products \ items : Blank(records[p])
  /\ wanted.open /\ wanted.full => \A p \in Products : Blank(records[p])
  /\ "disable" \notin events => enabled = items /\ wanted.enabled = wanted.items

\* A check that still counts is alone, and it is about the enabled Products.
Alone ==
  /\ chk.live => prime = Nothing /\ additional = {} /\ DOMAIN chk.seen = enabled
  /\ chk.live /\ chk.stage = "asked" => enabled # {}

\* Nothing is shown or loaded before its baseline was asked for and the request
\* has ended.  During a full prime nothing is, and what waits is being primed.
\* A Product waits for a batch it belongs to.
Waiting ==
  /\ \A p \in Products : records[p].operation = "ready" => p \in records[p].batch
  /\ \A p \in DOMAIN prime \cup Priming :
       records[p].shown = 0 /\ records[p].operation # "load"
  /\ prime # Nothing =>
       \A p \in Products :
         /\ records[p].shown = 0 /\ records[p].operation # "load"
         /\ records[p].operation = "ready" => p \in DOMAIN prime \cup Priming

HasWork(p) == records[p].shown # 0 \/ records[p].operation # "none"

\* What is shown or about to be shown has a baseline or will get one.
Watched ==
  \A p \in Products : HasWork(p) =>
    \/ baseline[p] # 0
    \/ recovery
    \/ p \in recoveryKeys \cup DOMAIN prime \cup Priming

\* A baseline is not newer than the server, nor than a load that is under way,
\* nor than what is shown.
Acknowledged ==
  \A p \in Products :
    /\ baseline[p] <= revision[p]
    /\ records[p].operation = "load" =>
         records[p].asked # 0 /\ baseline[p] <= records[p].asked
    /\ records[p].shown # 0 => baseline[p] <= records[p].shown

\* The refresh of a check loads, or has loaded, what the check has seen.
Published ==
  chk.live /\ chk.stage = "publishing" =>
    /\ \A p \in DOMAIN chk.seen : chk.seen[p] <= revision[p]
    /\ \A p \in chk.changed :
         /\ chk.done[p] = "wait" =>
              records[p].operation = "load" /\ records[p].asked >= chk.seen[p]
         /\ chk.done[p] = "ok" =>
              records[p].operation = "none" /\ records[p].shown >= chk.seen[p]
    /\ recovery => chk.changed = DOMAIN chk.seen

\* Only a failed full prime asks for everything to be refreshed.
Recovering == recovery => "prime" \in events

IInv ==
  Composed /\ Alone /\ Waiting /\ Watched /\ Acknowledged /\ Published /\ Recovering

-----------------------------------------------------------------------------
(* Requests. *)

LEMMA RequestIs ==
  ASSUME NEW f
  PROVE  f \in Requests <=> DOMAIN f \subseteq Products /\ f \in [DOMAIN f -> Revisions]
  BY DEF Requests

LEMMA NothingAsked ==
  /\ Nothing \in Requests
  /\ DOMAIN Nothing = {}
  /\ \A f \in Requests : f = Nothing <=> DOMAIN f = {}
<1>1. DOMAIN Nothing = {} /\ Nothing \in [{} -> Revisions]
  BY DEF Nothing
<1>2. Nothing \in Requests
  BY <1>1, RequestIs
<1>3. ASSUME NEW f \in Requests, DOMAIN f = {} PROVE f = Nothing
  BY <1>3, RequestIs DEF Nothing
<1> QED
  BY <1>1, <1>2, <1>3

LEMMA Asked ==
  ASSUME revision \in [Products -> Revisions], NEW names \in SUBSET Products
  PROVE  Ask(names) \in Requests /\ DOMAIN Ask(names) = names
  BY RequestIs DEF Ask

LEMMA Answered ==
  ASSUME revision \in [Products -> Revisions], NEW asked \in Requests, NEW answer \in Answers(asked)
  PROVE  /\ answer \in Requests /\ DOMAIN answer = DOMAIN asked
         /\ \A p \in DOMAIN answer : answer[p] \in 1..revision[p]
<1>1. /\ answer \in [DOMAIN asked -> Revisions]
      /\ \A p \in DOMAIN asked : answer[p] \in asked[p]..revision[p]
  BY DEF Answers
<1>2. DOMAIN asked \subseteq Products /\ asked \in [DOMAIN asked -> Revisions]
  BY RequestIs
<1> QED
  BY <1>1, <1>2, RequestIs, FreshnessAssumption DEF Revisions

\* The names of the requests that are left when some names are given up.
LEMMA OwnedNames ==
  ASSUME additional \subseteq Requests, NEW names \in SUBSET Products
  PROVE  /\ Owned(additional, names) \subseteq Requests
         /\ UNION {DOMAIN asked : asked \in Owned(additional, names)} = Priming \cap names
<1>1. ASSUME NEW asked \in Requests
      PROVE  /\ Restrict(asked, DOMAIN asked \cap names) \in Requests
             /\ DOMAIN Restrict(asked, DOMAIN asked \cap names) = DOMAIN asked \cap names
  BY RequestIs DEF Restrict
<1>2. Owned(additional, names) \subseteq Requests
  BY <1>1 DEF Owned
<1>3. ASSUME NEW p \in Priming \cap names
      PROVE  \E asked \in Owned(additional, names) : p \in DOMAIN asked
  <2>1. PICK asked \in additional : p \in DOMAIN asked
    BY DEF Priming
  <2>2. Restrict(asked, DOMAIN asked \cap names) # Nothing
    BY <2>1, <1>1, NothingAsked
  <2> QED
    BY <2>1, <2>2, <1>1 DEF Owned
<1>4. ASSUME NEW owned \in Owned(additional, names) PROVE DOMAIN owned \subseteq Priming \cap names
  <2>1. PICK asked \in additional : owned = Restrict(asked, DOMAIN asked \cap names)
    BY DEF Owned
  <2>2. DOMAIN owned = DOMAIN asked \cap names
    BY <2>1, <1>1
  <2> QED
    BY <2>2 DEF Priming
<1> DEFINE left == UNION {DOMAIN asked : asked \in Owned(additional, names)}
<1>5. \A p \in Priming \cap names : p \in left
  BY <1>3
<1>6. \A p \in left : p \in Priming \cap names
  BY <1>4
<1> HIDE DEF left
<1>7. left = Priming \cap names
  BY <1>5, <1>6
<1> QED
  BY <1>2, <1>7 DEF left

Apart(requests) ==
  \A one, other \in requests : one # other => DOMAIN one \cap DOMAIN other = {}

LEMMA OwnedApart ==
  ASSUME additional \subseteq Requests, Apart(additional), NEW names
  PROVE  Apart(Owned(additional, names))
<1> SUFFICES ASSUME NEW one \in Owned(additional, names), NEW other \in Owned(additional, names),
                    one # other
             PROVE  DOMAIN one \cap DOMAIN other = {}
  BY DEF Apart
<1>1. PICK f \in additional : one = Restrict(f, DOMAIN f \cap names)
  BY DEF Owned
<1>2. PICK g \in additional : other = Restrict(g, DOMAIN g \cap names)
  BY DEF Owned
<1>3. DOMAIN f \cap DOMAIN g = {}
  BY <1>1, <1>2 DEF Apart
<1>4. DOMAIN one = DOMAIN f \cap names /\ DOMAIN other = DOMAIN g \cap names
  BY <1>1, <1>2 DEF Restrict
<1> QED
  BY <1>3, <1>4

-----------------------------------------------------------------------------
(* Types. *)

TypedCheck(check) ==
  /\ check \in Checks
  /\ check.changed \subseteq DOMAIN check.seen
  /\ check.done \in [check.changed -> {"wait", "ok", "no"}]

TypedMonitor ==
  /\ events \in Scenarios
  /\ revision \in [Products -> Revisions]
  /\ baseline \in [Products -> 0..MaxRevision]
  /\ recovery \in BOOLEAN
  /\ recoveryKeys \subseteq Products
  /\ prime \in Requests
  /\ additional \subseteq Requests
  /\ Apart(additional)
  /\ TypedCheck(chk)
  /\ disposed \in BOOLEAN

TypedSession ==
  /\ enabled \subseteq items /\ items \subseteq Products
  /\ records \in [Products -> Record]
  /\ wanted \in Composition /\ wanted.enabled \subseteq wanted.items
  /\ edits \in 0..MaxEdits

LEMMA TypedParts == Typed <=> TypedMonitor /\ TypedSession
  BY DEF Typed, TypeOK, TypedMonitor, TypedSession, TypedCheck, Apart, Checks

LEMMA TypedPartsNext == Typed' <=> TypedMonitor' /\ TypedSession'
  BY DEF Typed, TypeOK, TypedMonitor, TypedSession, TypedCheck, Apart, Checks

\* A check without outcomes.
LEMMA BareCheck ==
  ASSUME NEW stage \in {"idle", "asked"}, NEW live \in BOOLEAN, NEW seen \in Requests
  PROVE  TypedCheck([NotChecking EXCEPT !.stage = stage, !.live = live, !.seen = seen])
<1>1. Nothing \in [{} -> {"wait", "ok", "no"}]
  BY DEF Nothing
<1> QED
  BY <1>1 DEF TypedCheck, Checks, NotChecking

LEMMA NoCheck == TypedCheck(NotChecking)
<1>1. Nothing \in [{} -> {"wait", "ok", "no"}]
  BY DEF Nothing
<1> QED
  BY <1>1, NothingAsked DEF TypedCheck, Checks, NotChecking

LEMMA RevokedCheck ==
  ASSUME TypedCheck(chk), NEW lost, NEW dropped
  PROVE  /\ TypedCheck(Revoked(chk, lost, dropped))
         /\ TypedCheck([Revoked(chk, lost, dropped) EXCEPT !.live = FALSE])
<1> DEFINE done == [p \in DOMAIN chk.done |->
       IF p \in lost \/ (p \in dropped /\ chk.done[p] = "wait") THEN "no" ELSE chk.done[p]]
<1>1. done \in [chk.changed -> {"wait", "ok", "no"}]
  BY DEF TypedCheck
<1>2. Revoked(chk, lost, dropped) = [chk EXCEPT !.done = done]
  BY DEF Revoked
<1>3. chk.changed \in SUBSET Products
  BY DEF TypedCheck, Checks
<1>4. done \in UNION {[S -> {"wait", "ok", "no"}] : S \in SUBSET Products}
  BY <1>1, <1>3
<1> HIDE DEF done
<1> QED
  BY <1>1, <1>2, <1>4 DEF TypedCheck, Checks

LEMMA NoRecordTyped == NoRecord \in Record
  BY FreshnessAssumption DEF NoRecord, Record

LEMMA IdleTyped == ASSUME NEW r \in Record PROVE Idle(r) \in Record
<1>1. 0 \in 0..MaxRevision /\ {} \in SUBSET Products
  BY FreshnessAssumption
<1> QED
  BY <1>1 DEF Idle, Record

LEMMA RequestedTyped ==
  ASSUME TypedSession
  PROVE  Requested.items \in SUBSET Products /\ Requested.enabled \in SUBSET Requested.items
  BY DEF TypedSession, Requested, NotWanted, Composition

LEMMA TypedReconcile ==
  ASSUME Typed, NEW next \in SUBSET Products, NEW on \in SUBSET next, NEW full \in BOOLEAN,
         Reconcile(next, on, full)
  PROVE  Typed'
<1> USE TypedParts, TypedPartsNext
<1>1. TypedMonitor'
  BY RevokedCheck DEF Reconcile, TypedMonitor
<1>2. records' \in [Products -> Record]
  BY NoRecordTyped, IdleTyped DEF Reconcile, TypedSession
<1>3. TypedSession'
  BY <1>2, ReviewAssumption DEF Reconcile, TypedSession, Composition
<1> QED
  BY <1>1, <1>3

LEMMA TypedEdits == ASSUME Typed, Edits PROVE Typed'
<1> USE TypedParts, RequestedTyped
<1>1. ASSUME NEW p \in Products, Add(p) PROVE Typed'
  BY <1>1, TypedReconcile DEF Add
<1>2. ASSUME NEW p \in Products, Remove(p) PROVE Typed'
  BY <1>2, TypedReconcile DEF Remove
<1>3. ASSUME NEW p \in Products, Disable(p) PROVE Typed'
  BY <1>3, TypedReconcile DEF Disable
<1>4. ASSUME NEW p \in Products, Enable(p) PROVE Typed'
  BY <1>4, TypedReconcile DEF Enable
<1>5. CASE Refresh
  BY <1>5, TypedReconcile DEF Refresh
<1>6. ASSUME NEW next \in SUBSET Products, Replace(next) PROVE Typed'
  BY <1>6, TypedReconcile DEF Replace
<1> QED
  BY <1>1, <1>2, <1>3, <1>4, <1>5, <1>6 DEF Edits

LEMMA PrunedTyped ==
  ASSUME NEW entries \in [Products -> 0..MaxRevision], NEW names
  PROVE  Pruned(entries, names) \in [Products -> 0..MaxRevision]
  BY FreshnessAssumption DEF Pruned

LEMMA RecordedTyped ==
  ASSUME NEW entries \in [Products -> 0..MaxRevision], NEW answer \in Requests, NEW names \in SUBSET DOMAIN answer
  PROVE  /\ Recorded(entries, answer) \in [Products -> 0..MaxRevision]
         /\ Recorded(entries, Restrict(answer, names)) \in [Products -> 0..MaxRevision]
<1>1. answer \in [DOMAIN answer -> Revisions] /\ Revisions \subseteq 0..MaxRevision
  BY RequestIs, FreshnessAssumption DEF Revisions
<1> QED
  BY <1>1 DEF Recorded, Restrict

LEMMA TypedPrime ==
  ASSUME TypedMonitor, NEW kept \in SUBSET Products, NEW names \in SUBSET Products, NEW check,
         TypedCheck([check EXCEPT !.live = FALSE]), RetainAndPrime(kept, names, check),
         UNCHANGED <<revision, disposed, events>>
  PROVE  TypedMonitor'
<1>1. prime' \in Requests
  BY Asked DEF TypedMonitor, RetainAndPrime
<1>2. baseline' \in [Products -> 0..MaxRevision]
  BY PrunedTyped DEF TypedMonitor, RetainAndPrime
<1>3. Apart({})
  BY DEF Apart
<1> QED
  BY <1>1, <1>2, <1>3 DEF TypedMonitor, RetainAndPrime

LEMMA TypedAdd ==
  ASSUME TypedMonitor, NEW kept \in SUBSET Products, NEW names \in SUBSET Products, NEW check,
         TypedCheck([check EXCEPT !.live = FALSE]), RetainAndAdd(kept, names, check),
         UNCHANGED <<revision, disposed, events>>
  PROVE  TypedMonitor'
<1> DEFINE owned   == Owned(additional, kept)
           owning  == UNION {DOMAIN asked : asked \in owned}
           missing == names \ owning
<1>1. owned \subseteq Requests /\ Apart(owned)
  BY OwnedNames, OwnedApart DEF TypedMonitor
<1>2. Ask(missing) \in Requests /\ DOMAIN Ask(missing) = missing
  BY Asked DEF TypedMonitor
<1>3. additional' = owned \cup ({Ask(missing)} \ {Nothing})
  BY DEF RetainAndAdd
<1>4. \A asked \in owned : DOMAIN asked \cap missing = {}
  OBVIOUS
<1> HIDE DEF owned, owning, missing
<1>5. additional' \subseteq Requests
  BY <1>1, <1>2, <1>3
<1>6. Apart(additional')
  BY <1>1, <1>2, <1>3, <1>4 DEF Apart
<1>7. baseline' \in [Products -> 0..MaxRevision]
  BY PrunedTyped DEF TypedMonitor, RetainAndAdd
<1> QED
  BY <1>5, <1>6, <1>7 DEF TypedMonitor, RetainAndAdd

LEMMA TypedCompose ==
  ASSUME Typed, NEW lost \in SUBSET items, Compose(lost)
  PROVE  Typed'
<1> USE TypedParts, TypedPartsNext
<1> DEFINE kept     == [p \in Products |->
                          IF p \notin wanted.items \/ p \in lost THEN NoRecord
                          ELSE IF p \in Packages \ wanted.enabled THEN Idle(records[p])
                          ELSE records[p]]
           starting == {p \in wanted.enabled : FirstLoad(kept[p]) /\ kept[p].operation = "none"}
           check    == Revoked(chk, lost, Packages \ wanted.enabled)
<1>1. wanted.items \in SUBSET Products /\ starting \in SUBSET Products
  BY DEF TypedSession, Composition
<1>2. TypedCheck([check EXCEPT !.live = FALSE])
  BY RevokedCheck DEF TypedMonitor
<1>3. kept \in [Products -> Record]
  BY NoRecordTyped, IdleTyped DEF TypedSession
<1>4. /\ items' = wanted.items /\ enabled' = wanted.enabled /\ wanted' = NotWanted
      /\ records' = [p \in Products |->
                       IF p \in starting
                       THEN [kept[p] EXCEPT !.present = TRUE, !.operation = "ready", !.batch = starting]
                       ELSE [kept[p] EXCEPT !.present = p \in wanted.items]]
      /\ IF wanted.full THEN RetainAndPrime(wanted.items, starting, check)
         ELSE RetainAndAdd(wanted.items, starting, check)
      /\ UNCHANGED <<revision, disposed, events, edits>>
  BY DEF Compose
<1> HIDE DEF kept, starting, check
<1>5. TypedMonitor'
  BY <1>1, <1>2, <1>4, TypedPrime, TypedAdd
<1>6. records' \in [Products -> Record]
  <2>1. ASSUME NEW r \in Record
        PROVE  /\ [r EXCEPT !.present = TRUE, !.operation = "ready", !.batch = starting] \in Record
               /\ \A b \in BOOLEAN : [r EXCEPT !.present = b] \in Record
    BY <1>1 DEF Record
  <2>2. \A p \in Products : (p \in wanted.items) \in BOOLEAN
    OBVIOUS
  <2> QED
    BY <1>3, <1>4, <2>1, <2>2
<1>7. TypedSession'
  BY <1>1, <1>4, <1>6 DEF TypedSession, NotWanted, Composition
<1> QED
  BY <1>5, <1>7

LEMMA UntouchedTyped == ASSUME TypedMonitor, UNCHANGED monitorVars PROVE TypedMonitor'
  BY DEF TypedMonitor, monitorVars, Apart, TypedCheck, Checks

\* What a load that has ended tells a check.
LEMMA ToldCheck ==
  ASSUME TypedCheck(chk), NEW p, NEW outcome \in {"ok", "no"}, Told(p, outcome)
  PROVE  TypedCheck(chk')
<1>1. CASE p \in DOMAIN chk.done /\ chk.done[p] = "wait"
  <2>1. chk' = [chk EXCEPT !.done = [chk.done EXCEPT ![p] = outcome]]
    BY <1>1 DEF Told
  <2>2. [chk.done EXCEPT ![p] = outcome] \in [chk.changed -> {"wait", "ok", "no"}]
    BY DEF TypedCheck
  <2>3. [chk.done EXCEPT ![p] = outcome] \in UNION {[S -> {"wait", "ok", "no"}] : S \in SUBSET Products}
    BY <2>2 DEF TypedCheck, Checks
  <2> QED
    BY <2>1, <2>2, <2>3 DEF TypedCheck, Checks
<1>2. CASE ~(p \in DOMAIN chk.done /\ chk.done[p] = "wait")
  BY <1>2 DEF Told
<1> QED
  BY <1>1, <1>2

LEMMA TypedLoading ==
  ASSUME Typed, NEW p \in Products,
         LoadStarts(p) \/ Loaded(p) \/ LoadedInPart(p) \/ LoadFails(p)
  PROVE  Typed'
<1> USE TypedParts, TypedPartsNext
<1>1. revision[p] \in 0..MaxRevision /\ records[p] \in Record /\ Idle(records[p]) \in Record
  BY IdleTyped, FreshnessAssumption DEF TypedMonitor, TypedSession, Revisions
<1>2. CASE LoadStarts(p)
  <2>1. [records[p] EXCEPT !.operation = "load", !.asked = revision[p], !.batch = {}] \in Record
    BY <1>1 DEF Record
  <2>2. records' \in [Products -> Record]
    BY <1>2, <2>1 DEF LoadStarts, TypedSession
  <2>3. TypedMonitor'
    BY <1>2, UntouchedTyped DEF LoadStarts
  <2> QED
    BY <1>2, <2>2, <2>3 DEF LoadStarts, TypedSession
<1>3. ASSUME NEW partial \in BOOLEAN, Publish(p, partial) PROVE Typed'
  <2>1. ASSUME NEW seen \in records[p].asked..revision[p]
        PROVE  [Idle(records[p]) EXCEPT
                  !.shown = seen, !.partial = partial, !.failed = FALSE] \in Record
    <3>1. seen \in 0..MaxRevision
      BY <1>1, FreshnessAssumption DEF Record
    <3> QED
      BY <1>1, <3>1 DEF Record
  <2>2. records' \in [Products -> Record]
    BY <1>3, <2>1 DEF Publish, TypedSession
  <2>3. TypedMonitor'
    BY <1>3, ToldCheck DEF Publish, TypedMonitor
  <2> QED
    BY <1>3, <2>2, <2>3 DEF Publish, TypedSession
<1>4. CASE LoadFails(p)
  <2>1. [Idle(records[p]) EXCEPT !.failed = @ \/ FirstLoad(records[p])] \in Record
    BY <1>1 DEF Record, FirstLoad
  <2>2. records' \in [Products -> Record]
    BY <1>4, <2>1 DEF LoadFails, TypedSession
  <2>3. TypedMonitor'
    BY <1>4, ToldCheck DEF LoadFails, TypedMonitor
  <2> QED
    BY <1>4, <2>2, <2>3 DEF LoadFails, TypedSession
<1> QED
  BY <1>2, <1>3, <1>4 DEF Loaded, LoadedInPart

LEMMA TypedPrimed ==
  ASSUME Typed, Primed
  PROVE  Typed'
<1> USE TypedParts, TypedPartsNext
<1>1. /\ PrimeEnds /\ UNCHANGED sessionVars
      /\ baseline' \in [Products -> 0..MaxRevision] /\ recovery' \in BOOLEAN
  <2>1. CASE PrimeAnswers /\ UNCHANGED sessionVars
    <3>1. PICK answer \in Answers(prime) : baseline' = Recorded(Pruned(baseline, {}), answer)
      BY <2>1 DEF PrimeAnswers
    <3>2. answer \in Requests
      BY Answered DEF TypedMonitor
    <3> QED
      BY <2>1, <3>1, <3>2, PrunedTyped, RecordedTyped DEF PrimeAnswers, TypedMonitor
  <2>2. CASE PrimeFails /\ UNCHANGED sessionVars
    BY <2>2, PrunedTyped DEF PrimeFails, TypedMonitor
  <2> QED
    BY <2>1, <2>2 DEF Primed
<1>2. additional' = {Ask(DOMAIN asked) : asked \in additional}
  BY <1>1 DEF PrimeEnds
<1>3. \A asked \in additional : Ask(DOMAIN asked) \in Requests /\ DOMAIN Ask(DOMAIN asked) = DOMAIN asked
  BY Asked, RequestIs DEF TypedMonitor
<1>4. additional' \subseteq Requests
  BY <1>2, <1>3
<1>5. Apart(additional')
  <2> SUFFICES ASSUME NEW one \in additional', NEW other \in additional', one # other
               PROVE  DOMAIN one \cap DOMAIN other = {}
    BY DEF Apart
  <2>1. PICK f \in additional : one = Ask(DOMAIN f)
    BY <1>2
  <2>2. PICK g \in additional : other = Ask(DOMAIN g)
    BY <1>2
  <2>3. DOMAIN f \cap DOMAIN g = {}
    BY <2>1, <2>2 DEF TypedMonitor, Apart
  <2> QED
    BY <2>1, <2>2, <2>3, <1>3
<1>6. TypedMonitor'
  BY <1>1, <1>4, <1>5, NothingAsked DEF PrimeEnds, TypedMonitor
<1>7. TypedSession'
  BY <1>1 DEF sessionVars, TypedSession
<1> QED
  BY <1>6, <1>7

LEMMA TypedAdded ==
  ASSUME Typed, Added
  PROVE  Typed'
<1> USE TypedParts, TypedPartsNext
<1>1. PICK asked \in additional : additional' = additional \ {asked}
  BY DEF Added, AdditionalAnswers, AdditionalFails
<1>2. DOMAIN asked \subseteq Products
  BY RequestIs DEF TypedMonitor
<1>3. baseline' \in [Products -> 0..MaxRevision] /\ recoveryKeys' \subseteq Products
  <2>1. CASE AdditionalAnswers(items)
    <3>1. PICK asking \in additional :
            /\ \E answer \in Answers(asking) :
                 baseline' = Recorded(baseline, Restrict(answer, DOMAIN answer \cap items))
            /\ recoveryKeys' = recoveryKeys \ (DOMAIN asking \cap items)
      BY <2>1 DEF AdditionalAnswers
    <3>2. PICK answer \in Answers(asking) :
            baseline' = Recorded(baseline, Restrict(answer, DOMAIN answer \cap items))
      BY <3>1
    <3>3. answer \in Requests
      BY Answered DEF TypedMonitor
    <3> QED
      BY <3>1, <3>2, <3>3, RecordedTyped DEF TypedMonitor
  <2>2. CASE AdditionalFails
    BY <2>2, RequestIs DEF AdditionalFails, TypedMonitor
  <2> QED
    BY <2>1, <2>2 DEF Added
<1>4. Apart(additional')
  BY <1>1 DEF TypedMonitor, Apart
<1>5. UNCHANGED <<revision, recovery, prime, chk, disposed, events>> /\ UNCHANGED sessionVars
  BY DEF Added, AdditionalAnswers, AdditionalFails
<1>6. TypedMonitor'
  BY <1>1, <1>3, <1>4, <1>5 DEF TypedMonitor
<1>7. TypedSession'
  BY <1>5 DEF sessionVars, TypedSession
<1> QED
  BY <1>6, <1>7

LEMMA TypedChecking ==
  ASSUME Typed, Check \/ NoAnswer \/ Finish
  PROVE  Typed'
<1> USE TypedParts, TypedPartsNext
<1>1. TypedSession'
  BY DEF Check, NoAnswer, Finish, sessionVars, TypedSession
<1>2. enabled \in SUBSET Products
  BY DEF TypedSession
<1>3. CASE Check
  <2>1. baseline' \in [Products -> 0..MaxRevision]
    BY <1>3, PrunedTyped DEF Check, CheckStarts, TypedMonitor
  <2>2. TypedCheck(chk')
    <3>1. TypedCheck([NotChecking EXCEPT !.stage = "asked", !.live = TRUE, !.seen = Ask(enabled)])
      BY BareCheck, Asked, <1>2 DEF TypedMonitor
    <3> QED
      BY <1>3, <3>1 DEF Check, CheckStarts, TypedMonitor
  <2> QED
    BY <1>1, <1>3, <2>1, <2>2 DEF Check, CheckStarts, TypedMonitor
<1>4. CASE NoAnswer
  BY <1>1, <1>4, NoCheck DEF NoAnswer, CheckEndsInVain, TypedMonitor
<1>5. CASE Finish
  <2>1. chk.seen \in Requests /\ chk.changed \subseteq DOMAIN chk.seen
    BY DEF TypedMonitor, TypedCheck, Checks
  <2>2. baseline' \in [Products -> 0..MaxRevision]
    <3>1. /\ baseline \in [Products -> 0..MaxRevision]
          /\ Recorded(Pruned(baseline, {}), chk.seen) \in [Products -> 0..MaxRevision]
          /\ Recorded(baseline, Restrict(chk.seen, chk.changed)) \in [Products -> 0..MaxRevision]
      BY <2>1, PrunedTyped, RecordedTyped DEF TypedMonitor
    <3> QED
      BY <1>5, <3>1 DEF Finish, CheckFinishes
  <2> QED
    BY <1>1, <1>5, <2>2, NoCheck DEF Finish, CheckFinishes, TypedMonitor
<1> QED
  BY <1>3, <1>4, <1>5

LEMMA TypedAnswer ==
  ASSUME Typed, Answer
  PROVE  Typed'
<1> USE TypedParts, TypedPartsNext
<1>1. PICK answer \in Answers(chk.seen) :
        LET names      == ChangedIn(answer)
            publishing == names # {} /\ CanRefresh(names)
        IN /\ CheckAnswers(items, answer, publishing)
           /\ records' = [p \in Products |->
                            IF publishing /\ p \in names /\ records[p].operation = "none"
                            THEN [records[p] EXCEPT !.operation = "load", !.asked = revision[p]]
                            ELSE records[p]]
           /\ UNCHANGED <<items, enabled, wanted, edits>>
  BY DEF Answer
<1> DEFINE names == ChangedIn(answer)
<1>2. answer \in Requests
  BY Answered DEF TypedMonitor, TypedCheck, Checks
<1>3. names \in SUBSET DOMAIN answer /\ FirstSeenIn(answer) \in SUBSET DOMAIN answer
  BY DEF ChangedIn, FirstSeenIn
<1>4. DOMAIN answer \subseteq Products
  BY <1>2, RequestIs
<1>5. baseline' \in [Products -> 0..MaxRevision]
  <2>1. Recorded(baseline, Restrict(answer, FirstSeenIn(answer))) \in [Products -> 0..MaxRevision]
    BY <1>2, <1>3, RecordedTyped DEF TypedMonitor
  <2> QED
    BY <1>1, <2>1, PrunedTyped DEF CheckAnswers
<1>6. TypedCheck(chk')
  <2> DEFINE published == [stage |-> "publishing", live |-> TRUE, seen |-> answer, changed |-> names,
                           done |-> [p \in names |-> "wait"]]
  <2>1. [p \in names |-> "wait"] \in [names -> {"wait", "ok", "no"}]
    OBVIOUS
  <2>2. names \in SUBSET Products
    BY <1>3, <1>4
  <2>3. [p \in names |-> "wait"] \in UNION {[S -> {"wait", "ok", "no"}] : S \in SUBSET Products}
    BY <2>1, <2>2
  <2>4. chk' = published \/ chk' = NotChecking
    BY <1>1 DEF CheckAnswers
  <2> HIDE DEF names
  <2>5. TypedCheck(published)
    BY <1>2, <1>3, <2>1, <2>2, <2>3 DEF TypedCheck, Checks
  <2> QED
    BY <2>4, <2>5, NoCheck
<1>7. TypedMonitor'
  <2>1. recovery' \in BOOLEAN
    BY <1>1 DEF CheckAnswers, TypedMonitor
  <2> QED
    BY <1>1, <1>5, <1>6, <2>1 DEF CheckAnswers, TypedMonitor
<1>8. records' \in [Products -> Record]
  <2>1. ASSUME NEW p \in Products
        PROVE  [records[p] EXCEPT !.operation = "load", !.asked = revision[p]] \in Record
    <3>1. records[p] \in Record /\ revision[p] \in 0..MaxRevision
      BY FreshnessAssumption DEF TypedMonitor, TypedSession, Revisions
    <3> QED
      BY <3>1 DEF Record
  <2> QED
    BY <1>1, <2>1 DEF TypedSession
<1> QED
  BY <1>1, <1>7, <1>8 DEF TypedSession

LEMMA TypedRest ==
  ASSUME Typed,
         (\E p \in Products : Change(p) /\ UNCHANGED sessionVars) \/ Leave \/ UNCHANGED vars
  PROVE  Typed'
<1> USE TypedParts, TypedPartsNext
<1>1. ASSUME NEW p \in Products, Change(p), UNCHANGED sessionVars PROVE Typed'
  <2>1. revision' \in [Products -> Revisions]
    BY <1>1, FreshnessAssumption DEF Change, TypedMonitor, Revisions
  <2> QED
    BY <1>1, <2>1 DEF Change, TypedMonitor, sessionVars, TypedSession
<1>2. CASE Leave
  <2>1. TypedMonitor'
    BY <1>2, NoCheck, NothingAsked, PrunedTyped DEF Leave, DestroyMonitor, TypedMonitor, Apart
  <2>2. TypedSession'
    BY <1>2, NoRecordTyped DEF Leave, TypedSession, NotWanted, Composition
  <2> QED
    BY <2>1, <2>2
<1>3. CASE UNCHANGED vars
  BY <1>3, UntouchedTyped DEF vars, sessionVars, TypedSession
<1> QED
  BY <1>1, <1>2, <1>3

LEMMA TypedInit == Init => Typed
<1> SUFFICES ASSUME Init PROVE Typed
  OBVIOUS
<1>1. TypedMonitor
  <2>1. 1 \in Revisions /\ 0 \in 0..MaxRevision
    BY FreshnessAssumption DEF Revisions
  <2>2. Apart(additional)
    BY DEF Init, InitMonitor, Apart
  <2> QED
    BY <2>1, <2>2, NoCheck, NothingAsked DEF Init, InitMonitor, TypedMonitor
<1>2. TypedSession
  BY NoRecordTyped, ReviewAssumption DEF Init, TypedSession, NotWanted, Composition
<1> QED
  BY <1>1, <1>2, TypedParts

LEMMA TypedNext == Typed /\ [Next]_vars => Typed'
<1> SUFFICES ASSUME Typed, [Next]_vars PROVE Typed'
  OBVIOUS
<1>1. ASSUME NEW lost \in SUBSET items, Compose(lost) PROVE Typed'
  BY <1>1, TypedCompose
<1>2. ASSUME NEW p \in Products,
             LoadStarts(p) \/ Loaded(p) \/ LoadedInPart(p) \/ LoadFails(p)
      PROVE  Typed'
  BY <1>2, TypedLoading
<1> QED
  BY <1>1, <1>2, TypedEdits, TypedPrimed, TypedAdded, TypedChecking, TypedAnswer, TypedRest DEF Next

\* The page, its monitor and what is under way have their types, and no
\* Product is primed by two requests at once.
THEOREM ReviewTyped == Spec => []TypeOK
<1>1. Typed => TypeOK
  BY DEF Typed
<1> QED
  BY <1>1, TypedInit, TypedNext, PTL DEF Spec

-----------------------------------------------------------------------------
(* The steps of a user. *)

LEMMA Initially == Init => IInv
<1> SUFFICES ASSUME Init PROVE IInv
  OBVIOUS
<1>1. \A p \in Products : records[p] = NoRecord
  BY DEF Init
<1>2. prime = Nothing /\ additional = {} /\ ~chk.live /\ recovery = FALSE
  BY DEF Init, InitMonitor, NotChecking
<1>3. Composed
  BY <1>1 DEF Init, Composed, NotWanted, NoRecord, Blank
<1>4. Waiting /\ Watched
  BY <1>1, <1>2, NothingAsked DEF Waiting, Watched, HasWork, NoRecord, Priming
<1>5. Acknowledged
  BY <1>1 DEF Acknowledged, NoRecord, Init, InitMonitor
<1> QED
  BY <1>2, <1>3, <1>4, <1>5 DEF IInv, Alone, Published, Recovering

\* What a Product gives up when it loses its record or its operation.
LEMMA GivenUp ==
  ASSUME Typed, NEW p \in Products
  PROVE  /\ NoRecord.shown = 0 /\ NoRecord.operation = "none" /\ Blank(NoRecord)
         /\ Blank(records[p]) => Blank(Idle(records[p]))
         /\ Idle(records[p]).shown = records[p].shown /\ Idle(records[p]).operation = "none"
         /\ Idle(records[p]).failed = records[p].failed
<1>1. records[p] \in Record
  BY DEF Typed, TypeOK
<1> QED
  BY <1>1 DEF Idle, Record, NoRecord, Blank

LEMMA RevokedIs ==
  ASSUME Typed, NEW lost, NEW dropped
  PROVE  LET check == Revoked(chk, lost, dropped)
         IN /\ check.stage = chk.stage /\ check.live = chk.live
            /\ check.seen = chk.seen /\ check.changed = chk.changed
            /\ \A p \in chk.changed :
                 check.done[p] = IF p \in lost \/ (p \in dropped /\ chk.done[p] = "wait")
                                 THEN "no" ELSE chk.done[p]
  BY DEF Typed, TypeOK, Checks, Revoked

LEMMA KeepsReconcile ==
  ASSUME Typed, IInv, NEW next \in SUBSET Products, NEW on \in SUBSET next, NEW full \in BOOLEAN,
         "disable" \notin events => on = next,
         Reconcile(next, on, full)
  PROVE  IInv'
<1> DEFINE lost    == IF full \/ edits = 0 THEN Products ELSE Products \ next
           dropped == Packages \ on
<1>1. /\ wanted' = [items |-> next, enabled |-> on, full |-> full \/ edits = 0, open |-> TRUE]
      /\ records' = [p \in Products |-> IF p \in lost THEN NoRecord
                                        ELSE IF p \in dropped THEN Idle(records[p])
                                        ELSE records[p]]
      /\ chk' = Revoked(chk, lost, dropped)
      /\ UNCHANGED <<revision, baseline, recovery, recoveryKeys, prime, additional, disposed, events,
                     items, enabled>>
  BY DEF Reconcile
<1>2. /\ chk'.stage = chk.stage /\ chk'.live = chk.live
      /\ chk'.seen = chk.seen /\ chk'.changed = chk.changed
      /\ \A p \in chk.changed :
           chk'.done[p] = IF p \in lost \/ (p \in dropped /\ chk.done[p] = "wait")
                          THEN "no" ELSE chk.done[p]
  BY <1>1, RevokedIs
<1>3. \A p \in Products : \/ records'[p] = records[p] /\ p \notin lost \cup dropped
                          \/ records'[p] = Idle(records[p]) /\ p \in dropped \ lost
                          \/ records'[p] = NoRecord /\ p \in lost
  BY <1>1
<1>4. full \/ edits = 0 => lost = Products
  OBVIOUS
<1>5. Priming' = Priming
  BY <1>1 DEF Priming
<1> HIDE DEF lost, dropped
<1>6. Composed'
  BY <1>1, <1>3, <1>4, GivenUp DEF IInv, Composed
<1>7. Alone'
  BY <1>1, <1>2 DEF IInv, Alone
<1>8. Waiting'
  <2>1. DOMAIN prime \cup Priming \subseteq Products
    BY RequestIs DEF Typed, TypeOK, Priming
  <2>2. \A p \in Products : records'[p].operation \in {"none", records[p].operation}
                           /\ records'[p].shown \in {0, records[p].shown}
                           /\ (records'[p].operation = "ready" => records'[p] = records[p])
    BY <1>3, GivenUp
  <2> QED
    BY <1>1, <1>5, <2>1, <2>2 DEF IInv, Waiting
<1>9. Watched' /\ Acknowledged'
  BY <1>1, <1>3, <1>5, GivenUp DEF IInv, Watched, HasWork, Acknowledged
<1>10. Published'
  <2>1. chk.changed \subseteq Products
    BY DEF Typed, Checks
  <2> QED
    BY <1>1, <1>2, <1>3, <2>1, GivenUp DEF IInv, Published
<1> QED
  BY <1>1, <1>6, <1>7, <1>8, <1>9, <1>10 DEF IInv, Recovering

LEMMA RequestedAll ==
  ASSUME Typed, IInv
  PROVE  "disable" \notin events => Requested.enabled = Requested.items
  BY DEF Typed, TypeOK, Composition, IInv, Composed, Requested, NotWanted

LEMMA KeepsEdits == ASSUME Typed, IInv, Edits PROVE IInv'
<1> USE TypedParts, RequestedTyped, RequestedAll
<1>1. ASSUME NEW p \in Products, Add(p) PROVE IInv'
  BY <1>1, KeepsReconcile DEF Add
<1>2. ASSUME NEW p \in Products, Remove(p) PROVE IInv'
  BY <1>2, KeepsReconcile DEF Remove
<1>3. ASSUME NEW p \in Products, Disable(p) PROVE IInv'
  BY <1>3, KeepsReconcile DEF Disable
<1>4. ASSUME NEW p \in Products, Enable(p) PROVE IInv'
  BY <1>4, KeepsReconcile DEF Enable
<1>5. CASE Refresh
  BY <1>5, KeepsReconcile DEF Refresh
<1>6. ASSUME NEW next \in SUBSET Products, Replace(next) PROVE IInv'
  BY <1>6, KeepsReconcile DEF Replace
<1> QED
  BY <1>1, <1>2, <1>3, <1>4, <1>5, <1>6 DEF Edits

\* The names that are being primed after a partial change of the composition.
LEMMA AddedNames ==
  ASSUME TypedMonitor, NEW kept \in SUBSET Products, NEW names \in SUBSET kept, NEW check,
         RetainAndAdd(kept, names, check)
  PROVE  Priming' = (Priming \cap kept) \cup names
<1> DEFINE owned   == Owned(additional, kept)
           owning  == UNION {DOMAIN asked : asked \in owned}
           missing == names \ owning
<1>1. owning = Priming \cap kept
  BY OwnedNames DEF TypedMonitor
<1>2. Ask(missing) \in Requests /\ DOMAIN Ask(missing) = missing
  BY Asked DEF TypedMonitor
<1>3. additional' = owned \cup ({Ask(missing)} \ {Nothing})
  BY DEF RetainAndAdd
<1>4. missing # {} => Ask(missing) \in additional'
  BY <1>2, <1>3, NothingAsked
<1>5. \A p \in Priming' : p \in owning \cup missing
  <2> SUFFICES ASSUME NEW asked \in additional', NEW p \in DOMAIN asked
               PROVE  p \in owning \cup missing
    BY DEF Priming
  <2> QED
    BY <1>2, <1>3
<1>6. \A p \in owning : p \in Priming'
  BY <1>3 DEF Priming
<1>7. \A p \in missing : p \in Priming'
  BY <1>2, <1>4 DEF Priming
<1>8. names \subseteq owning \cup missing
  OBVIOUS
<1>9. missing \subseteq names
  OBVIOUS
<1> HIDE DEF owned, owning, missing
<1> QED
  BY <1>1, <1>5, <1>6, <1>7, <1>8, <1>9

LEMMA BaselineKnown ==
  ASSUME Typed, IInv, NEW p \in Products
  PROVE  baseline[p] \in Nat /\ revision[p] \in Nat \ {0} /\ baseline[p] <= revision[p]
  BY FreshnessAssumption DEF Typed, TypeOK, Revisions, IInv, Acknowledged

LEMMA KeepsCompose ==
  ASSUME Typed, IInv, NEW lost \in SUBSET items, Compose(lost)
  PROVE  IInv'
<1> DEFINE kept     == [p \in Products |->
                          IF p \notin wanted.items \/ p \in lost THEN NoRecord
                          ELSE IF p \in Packages \ wanted.enabled THEN Idle(records[p])
                          ELSE records[p]]
           starting == {p \in wanted.enabled : FirstLoad(kept[p]) /\ kept[p].operation = "none"}
           check    == Revoked(chk, lost, Packages \ wanted.enabled)
<1>1. /\ items' = wanted.items /\ enabled' = wanted.enabled /\ wanted' = NotWanted
      /\ records' = [p \in Products |->
                       IF p \in starting
                       THEN [kept[p] EXCEPT !.present = TRUE, !.operation = "ready", !.batch = starting]
                       ELSE [kept[p] EXCEPT !.present = p \in wanted.items]]
      /\ IF wanted.full THEN RetainAndPrime(wanted.items, starting, check)
         ELSE RetainAndAdd(wanted.items, starting, check)
      /\ UNCHANGED <<revision, disposed, events, edits>> /\ wanted.open
  BY DEF Compose
<1>2. wanted.items \in SUBSET Products /\ starting \in SUBSET wanted.items /\ TypedMonitor
  BY TypedParts DEF TypedSession, Composition
<1>3. \A p \in Products : \/ kept[p] = records[p]
                          \/ kept[p] = Idle(records[p])
                          \/ kept[p] = NoRecord
  OBVIOUS
<1>4. \A p \in Products \ wanted.items : kept[p] = NoRecord
  OBVIOUS
<1>5. \A p \in starting : kept[p].shown = 0 /\ kept[p].operation = "none"
  BY DEF FirstLoad
<1>6. kept \in [Products -> Record]
  BY TypedParts, NoRecordTyped, IdleTyped DEF TypedSession
<1> HIDE DEF kept, starting, check
<1>7. \A p \in Products :
        /\ records'[p].shown = kept[p].shown /\ records'[p].asked = kept[p].asked
        /\ p \notin wanted.items => ~records'[p].present
        /\ p \in starting => records'[p].operation = "ready" /\ records'[p].batch = starting
        /\ p \notin starting => records'[p].operation = kept[p].operation /\ records'[p].batch = kept[p].batch
  <2> TAKE p \in Products
  <2>1. CASE p \in starting
    <3>1. records'[p] = [kept[p] EXCEPT !.present = TRUE, !.operation = "ready", !.batch = starting]
      BY <1>1, <2>1
    <3> QED
      BY <1>2, <1>6, <2>1, <3>1 DEF Record
  <2>2. CASE p \notin starting
    <3> DEFINE there == p \in wanted.items
    <3>1. records'[p] = [kept[p] EXCEPT !.present = there]
      BY <1>1, <2>2
    <3>2. p \notin wanted.items => ~there
      OBVIOUS
    <3> HIDE DEF there
    <3> QED
      BY <1>6, <2>2, <3>1, <3>2 DEF Record
  <2> QED
    BY <2>1, <2>2
<1>8. /\ ~chk'.live
      /\ recoveryKeys' \subseteq recoveryKeys
      /\ \A p \in Products : baseline'[p] \in {0, baseline[p]}
      /\ recovery' => recovery
  <2>1. check.live \in BOOLEAN /\ check \in Checks
    BY <1>2, RevokedCheck DEF TypedMonitor, TypedCheck, Checks, check
  <2> QED
    BY <1>1, <1>2, <2>1 DEF RetainAndPrime, RetainAndAdd, Pruned, Checks, TypedMonitor
<1>9. \A p \in Products : baseline'[p] <= revision'[p]
  <2>1. revision' = revision
    BY <1>1
  <2> QED
    BY <1>8, <2>1, BaselineKnown
<1>10. Composed'
  <2>1. \A p \in Products \ wanted.items : Blank(records'[p])
    BY <1>2, <1>4, <1>7, GivenUp DEF Blank
  <2> QED
    BY <1>1, <2>1 DEF Composed, IInv, NotWanted
<1>11. Alone' /\ Published'
  BY <1>8 DEF Alone, Published
<1>12. Recovering'
  BY <1>1, <1>8 DEF IInv, Recovering
<1>13. Waiting' /\ Watched' /\ Acknowledged' => IInv'
  BY <1>10, <1>11, <1>12 DEF IInv
<1>14. CASE wanted.full
  <2>1. \A p \in Products : kept[p].shown = 0 /\ kept[p].operation = "none"
    BY <1>1, <1>3, <1>14, GivenUp DEF IInv, Composed, Blank
  <2>2. DOMAIN prime' = starting /\ additional' = {} /\ Priming' = {}
    BY <1>1, <1>2, <1>14, Asked DEF RetainAndPrime, TypedMonitor, Priming
  <2>3. Waiting'
    BY <1>2, <1>7, <2>1, <2>2, GivenUp DEF Waiting, Typed, TypeOK
  <2>4. Watched' /\ Acknowledged'
    <3>1. \A p \in Products : records'[p].shown = 0 /\ records'[p].operation # "load"
      BY <1>7, <2>1, GivenUp DEF Typed
    <3>2. Watched'
      BY <1>7, <2>1, <2>2, <3>1, GivenUp DEF Watched, HasWork
    <3>3. Acknowledged'
      BY <1>9, <3>1 DEF Acknowledged
    <3> QED
      BY <3>2, <3>3
  <2> QED
    BY <1>13, <2>3, <2>4
<1>15. CASE ~wanted.full
  <2>1. /\ Priming' = (Priming \cap wanted.items) \cup starting
        /\ prime' = prime /\ recovery' = recovery
        /\ recoveryKeys' = recoveryKeys \cap wanted.items
        /\ \A p \in wanted.items : baseline'[p] = baseline[p]
    BY <1>1, <1>2, <1>15, AddedNames DEF RetainAndAdd, Pruned
  <2>2. \A p \in Products :
          /\ records'[p].shown # 0 =>
               p \in wanted.items /\ p \notin starting /\ records'[p].shown = records[p].shown
          /\ records'[p].operation # "none" /\ p \notin starting =>
               p \in wanted.items /\ records'[p].operation = records[p].operation
               /\ records'[p].batch = records[p].batch /\ records'[p].asked = records[p].asked
    BY <1>3, <1>4, <1>5, <1>7, GivenUp
  <2>3. Waiting'
    <3>1. DOMAIN prime \cup Priming \subseteq Products
      BY RequestIs DEF Typed, TypeOK, Priming
    <3>2. \A p \in Products : records'[p].operation = "ready" => p \in records'[p].batch
      BY <1>7, <2>2 DEF IInv, Waiting
    <3>3. \A p \in DOMAIN prime' \cup Priming' :
             records'[p].shown = 0 /\ records'[p].operation # "load"
      BY <1>2, <1>5, <1>7, <2>1, <2>2, <3>1 DEF IInv, Waiting
    <3>4. prime' # Nothing =>
             \A p \in Products :
               /\ records'[p].shown = 0 /\ records'[p].operation # "load"
               /\ records'[p].operation = "ready" => p \in DOMAIN prime' \cup Priming'
      BY <1>2, <1>7, <2>1, <2>2 DEF IInv, Waiting
    <3> QED
      BY <3>2, <3>3, <3>4 DEF Waiting
  <2>4. Watched'
    BY <1>7, <2>1, <2>2 DEF IInv, Watched, HasWork
  <2>5. Acknowledged'
    <3> SUFFICES ASSUME NEW p \in Products
                 PROVE  /\ records'[p].operation = "load" =>
                             records'[p].asked # 0 /\ baseline'[p] <= records'[p].asked
                        /\ records'[p].shown # 0 => baseline'[p] <= records'[p].shown
      BY <1>9 DEF Acknowledged
    <3>1. records'[p].operation = "load" =>
            baseline'[p] = baseline[p] /\ records'[p].asked = records[p].asked /\ records[p].operation = "load"
      BY <1>7, <2>1, <2>2
    <3>2. records'[p].shown # 0 => baseline'[p] = baseline[p] /\ records'[p].shown = records[p].shown
      BY <2>1, <2>2
    <3> QED
      BY <3>1, <3>2 DEF IInv, Acknowledged
  <2> QED
    BY <1>13, <2>3, <2>4, <2>5
<1> QED
  BY <1>14, <1>15

-----------------------------------------------------------------------------
(* Loads. *)

\* A step that touches the record of one Product, which has work before and is
\* neither primed nor waiting for a prime, and leaves the monitor's rows alone.
LEMMA LoadStep ==
  ASSUME Typed, IInv, NEW p \in Products,
         UNCHANGED <<revision, baseline, recovery, recoveryKeys, prime, additional, events,
                     items, enabled, wanted>>,
         \A q \in Products \ {p} : records'[q] = records[q],
         records[p].operation # "none", p \notin DOMAIN prime \cup Priming, prime = Nothing,
         records'[p].operation # "ready",
         records'[p].operation = "load" =>
           records'[p].asked # 0 /\ baseline[p] <= records'[p].asked,
         records'[p].shown # 0 => baseline[p] <= records'[p].shown,
         chk'.live = chk.live, chk'.seen = chk.seen, chk'.stage = chk.stage,
         Published'
  PROVE  IInv'
<1>1. Priming' = Priming
  BY DEF Priming
<1>2. p \in items /\ ~(wanted.open /\ wanted.full)
  BY DEF IInv, Composed, Blank
<1>3. Composed'
  BY <1>2 DEF IInv, Composed
<1>4. Alone'
  BY DEF IInv, Alone
<1>5. Waiting'
  <2>1. DOMAIN prime \cup Priming \subseteq Products
    BY RequestIs DEF Typed, TypeOK, Priming
  <2> QED
    BY <1>1, <2>1 DEF IInv, Waiting
<1>6. Watched'
  <2>1. HasWork(p)
    BY DEF HasWork
  <2> QED
    BY <1>1, <2>1 DEF IInv, Watched, HasWork
<1>7. Acknowledged'
  BY DEF IInv, Acknowledged
<1> QED
  BY <1>3, <1>4, <1>5, <1>6, <1>7 DEF IInv, Recovering

LEMMA KeepsStart ==
  ASSUME Typed, IInv, NEW p \in Products, LoadStarts(p)
  PROVE  IInv'
<1>1. p \notin DOMAIN prime \cup Priming
  BY NothingAsked DEF LoadStarts, IInv, Waiting
<1>2. /\ records' = [records EXCEPT ![p].operation = "load", ![p].asked = revision[p], ![p].batch = {}]
      /\ UNCHANGED <<revision, baseline, recovery, recoveryKeys, prime, additional, chk, events,
                     items, enabled, wanted>>
      /\ records[p].operation = "ready" /\ prime = Nothing
  BY DEF LoadStarts, monitorVars
<1>3. /\ \A q \in Products \ {p} : records'[q] = records[q]
      /\ records'[p].operation = "load" /\ records'[p].asked = revision[p]
      /\ records'[p].shown = records[p].shown
  BY <1>2 DEF Typed, TypeOK, Record
<1>4. Published'
  BY <1>2, <1>3 DEF IInv, Published, Typed, Checks
<1>5. records'[p].shown # 0 => baseline[p] <= records'[p].shown
  BY <1>3 DEF IInv, Acknowledged
<1>6. records'[p].asked # 0 /\ baseline[p] <= records'[p].asked
  BY <1>3, BaselineKnown
<1> QED
  BY <1>1, <1>2, <1>3, <1>4, <1>5, <1>6, LoadStep

LEMMA ToldIs ==
  ASSUME Typed, NEW p, NEW outcome, Told(p, outcome)
  PROVE  /\ chk'.stage = chk.stage /\ chk'.live = chk.live
         /\ chk'.seen = chk.seen /\ chk'.changed = chk.changed
         /\ \A q \in chk.changed :
              chk'.done[q] = IF q = p /\ chk.done[q] = "wait" THEN outcome ELSE chk.done[q]
  BY DEF Typed, TypeOK, Checks, Told

\* A load ends.
LEMMA KeepsLoad ==
  ASSUME Typed, IInv, NEW p \in Products, Loaded(p) \/ LoadedInPart(p) \/ LoadFails(p)
  PROVE  IInv'
<1>1. /\ records[p].operation = "load"
      /\ \A q \in Products \ {p} : records'[q] = records[q]
      /\ records'[p].operation = "none"
      /\ UNCHANGED <<revision, baseline, recovery, recoveryKeys, prime, additional, events,
                     items, enabled, wanted>>
      /\ \/ Told(p, "ok") /\ records'[p].shown >= records[p].asked /\ records'[p].shown \in Nat
         \/ Told(p, "no") /\ records'[p].shown = records[p].shown
  <2>1. records \in [Products -> Record]
    BY DEF Typed, TypeOK
  <2>2. CASE \E partial \in BOOLEAN : Publish(p, partial)
    <3> PICK partial \in BOOLEAN : Publish(p, partial)
      BY <2>2
    <3>1. PICK seen \in records[p].asked..revision[p] :
            records' = [records EXCEPT ![p] = [Idle(records[p]) EXCEPT
                          !.shown = seen, !.partial = partial, !.failed = FALSE]]
      BY DEF Publish
    <3>2. seen \in Nat /\ seen >= records[p].asked
      BY <2>1, FreshnessAssumption DEF Record, Typed, TypeOK, Revisions
    <3>3. records'[p].operation = "none" /\ records'[p].shown = seen
      BY <2>1, <3>1 DEF Idle, Record
    <3> QED
      BY <2>1, <3>1, <3>2, <3>3 DEF Publish
  <2>3. CASE LoadFails(p)
    BY <2>1, <2>3 DEF LoadFails, Idle, Record
  <2> QED
    BY <2>2, <2>3 DEF Loaded, LoadedInPart
<1>2. p \notin DOMAIN prime \cup Priming /\ prime = Nothing
  BY <1>1 DEF IInv, Waiting
<1>3. records'[p].shown # 0 => baseline[p] <= records'[p].shown
  BY <1>1, BaselineKnown, FreshnessAssumption DEF IInv, Acknowledged, Typed, TypeOK, Record
<1>4. /\ chk'.stage = chk.stage /\ chk'.live = chk.live
      /\ chk'.seen = chk.seen /\ chk'.changed = chk.changed
      /\ \A q \in chk.changed : q # p \/ chk.done[q] # "wait" => chk'.done[q] = chk.done[q]
      /\ p \in chk.changed /\ chk.done[p] = "wait" =>
           \/ chk'.done[p] = "no"
           \/ chk'.done[p] = "ok" /\ records'[p].shown >= records[p].asked /\ records'[p].shown \in Nat
  <2>1. CASE Told(p, "ok") /\ records'[p].shown >= records[p].asked /\ records'[p].shown \in Nat
    BY <2>1, ToldIs
  <2>2. CASE Told(p, "no")
    BY <2>2, ToldIs
  <2> QED
    BY <1>1, <2>1, <2>2
<1>5. Published'
  <2> SUFFICES ASSUME chk.live, chk.stage = "publishing"
               PROVE  \A q \in chk.changed :
                        /\ chk'.done[q] = "wait" =>
                             records'[q].operation = "load" /\ records'[q].asked >= chk.seen[q]
                        /\ chk'.done[q] = "ok" =>
                             records'[q].operation = "none" /\ records'[q].shown >= chk.seen[q]
    BY <1>1, <1>4 DEF Published, IInv
  <2> TAKE q \in chk.changed
  <2>1. q \in Products /\ q \in DOMAIN chk.seen /\ chk.seen[q] \in Nat
    BY RequestIs, FreshnessAssumption DEF Typed, TypeOK, Checks, Revisions
  <2>2. CASE q # p
    <3>1. chk'.done[q] = chk.done[q]
      BY <1>4, <2>2
    <3> QED
      BY <1>1, <2>1, <2>2, <3>1 DEF IInv, Published
  <2>3. CASE q = p /\ chk.done[p] = "wait"
    <3>1. records[p].asked >= chk.seen[p] /\ records[p].asked \in Nat
      BY <2>1, <2>3, FreshnessAssumption DEF IInv, Published, Typed, TypeOK, Record
    <3>2. \/ chk'.done[p] = "no"
          \/ chk'.done[p] = "ok" /\ records'[p].shown >= records[p].asked /\ records'[p].shown \in Nat
      BY <1>4, <2>3
    <3> QED
      BY <1>1, <2>1, <2>3, <3>1, <3>2
  <2>4. CASE q = p /\ chk.done[p] # "wait"
    <3>1. chk'.done[p] = chk.done[p]
      BY <1>4, <2>4
    <3> QED
      BY <1>1, <2>4, <3>1 DEF IInv, Published
  <2> QED
    BY <2>2, <2>3, <2>4
<1> QED
  BY <1>1, <1>2, <1>3, <1>4, <1>5, LoadStep

-----------------------------------------------------------------------------
(* Primes. *)

LEMMA KeepsPrimed == ASSUME Typed, IInv, Primed PROVE IInv'
<1>1. /\ PrimeEnds /\ UNCHANGED sessionVars
      /\ \/ /\ \E answer \in Answers(prime) : baseline' = Recorded(Pruned(baseline, {}), answer)
            /\ recovery' = FALSE
         \/ /\ baseline' = Pruned(baseline, {})
            /\ recovery' = TRUE /\ "prime" \in events
  BY DEF Primed, PrimeAnswers, PrimeFails
<1>2. /\ prime # Nothing /\ prime' = Nothing /\ ~chk.live /\ chk' = chk
      /\ additional' = {Ask(DOMAIN asked) : asked \in additional}
      /\ UNCHANGED <<revision, recoveryKeys, events, items, enabled, records, wanted>>
  BY <1>1 DEF PrimeEnds, sessionVars, IInv, Alone
<1>3. \A asked \in additional : DOMAIN Ask(DOMAIN asked) = DOMAIN asked
  BY Asked, RequestIs DEF Typed, TypeOK
<1>4. Priming' = Priming
  <2>1. \A p \in Priming : p \in Priming'
    BY <1>2, <1>3 DEF Priming
  <2>2. \A p \in Priming' : p \in Priming
    BY <1>2, <1>3 DEF Priming
  <2> QED
    BY <2>1, <2>2
<1>5. \A p \in Products :
        /\ baseline'[p] <= revision[p]
        /\ p \in DOMAIN prime => baseline'[p] # 0 \/ recovery'
  <2>1. ASSUME NEW answer \in Answers(prime), baseline' = Recorded(Pruned(baseline, {}), answer)
        PROVE  \A p \in Products : baseline'[p] <= revision[p] /\ (p \in DOMAIN prime => baseline'[p] # 0)
    <3>1. DOMAIN answer = DOMAIN prime /\ \A p \in DOMAIN answer : answer[p] \in 1..revision[p]
      BY Answered DEF Typed, TypeOK
    <3> QED
      BY <2>1, <3>1, BaselineKnown DEF Recorded, Pruned
  <2>2. ASSUME baseline' = Pruned(baseline, {}) PROVE \A p \in Products : baseline'[p] <= revision[p]
    BY <2>2, BaselineKnown DEF Pruned
  <2> QED
    BY <1>1, <2>1, <2>2
<1>6. Composed' /\ Alone' /\ Published'
  BY <1>2 DEF IInv, Composed, Alone, Published
<1>7. Waiting'
  BY <1>2, <1>4, NothingAsked DEF IInv, Waiting
<1>8. Watched'
  <2>1. \A p \in Products : HasWork(p) => p \in DOMAIN prime \cup Priming
    <3>1. \A p \in Products : records[p].operation \in {"none", "ready", "load"}
      BY DEF Typed, TypeOK, Record
    <3> QED
      BY <1>2, <3>1 DEF IInv, Waiting, HasWork
  <2> QED
    BY <1>2, <1>4, <1>5, <2>1 DEF Watched, HasWork
<1>9. Acknowledged'
  BY <1>2, <1>5 DEF IInv, Waiting, Acknowledged
<1>10. Recovering'
  BY <1>1, <1>2 DEF Recovering
<1> QED
  BY <1>6, <1>7, <1>8, <1>9, <1>10 DEF IInv

LEMMA KeepsAdded == ASSUME Typed, IInv, Added PROVE IInv'
<1>1. PICK asked \in additional :
        /\ additional' = additional \ {asked}
        /\ \/ /\ \E answer \in Answers(asked) :
                   baseline' = Recorded(baseline, Restrict(answer, DOMAIN answer \cap items))
              /\ recoveryKeys' = recoveryKeys \ (DOMAIN asked \cap items)
           \/ /\ baseline' = baseline
              /\ recoveryKeys' = recoveryKeys \cup DOMAIN asked
  BY DEF Added, AdditionalAnswers, AdditionalFails
<1>2. /\ prime = Nothing /\ ~chk.live
      /\ UNCHANGED <<revision, recovery, prime, chk, events, items, enabled, records, wanted>>
  BY DEF Added, AdditionalAnswers, AdditionalFails, sessionVars, IInv, Alone
<1>3. Priming' \subseteq Priming /\ Priming \ DOMAIN asked \subseteq Priming' /\ DOMAIN asked \subseteq Priming
  BY <1>1 DEF Priming
<1>4. \A p \in Products :
        /\ baseline'[p] <= revision[p]
        /\ p \notin DOMAIN asked => baseline'[p] = baseline[p] /\ (p \in recoveryKeys => p \in recoveryKeys')
        /\ baseline[p] # 0 => baseline'[p] # 0
        /\ p \in DOMAIN asked \cap items => baseline'[p] # 0 \/ p \in recoveryKeys'
  <2>1. ASSUME NEW answer \in Answers(asked),
               baseline' = Recorded(baseline, Restrict(answer, DOMAIN answer \cap items)),
               NEW p \in Products
        PROVE  /\ baseline'[p] <= revision[p]
               /\ p \notin DOMAIN asked => baseline'[p] = baseline[p]
               /\ baseline[p] # 0 => baseline'[p] # 0
               /\ p \in DOMAIN asked \cap items => baseline'[p] # 0
    <3>1. DOMAIN answer = DOMAIN asked /\ \A q \in DOMAIN answer : answer[q] \in 1..revision[q]
      BY Answered DEF Typed, TypeOK
    <3>2. baseline'[p] = IF p \in DOMAIN asked \cap items THEN answer[p] ELSE baseline[p]
      BY <2>1, <3>1 DEF Recorded, Restrict
    <3> QED
      BY <3>1, <3>2, BaselineKnown
  <2> QED
    BY <1>1, <2>1, BaselineKnown
<1>5. Composed' /\ Alone' /\ Published' /\ Recovering'
  BY <1>2 DEF IInv, Composed, Alone, Published, Recovering
<1>6. Waiting'
  BY <1>2, <1>3, NothingAsked DEF IInv, Waiting
<1>7. Watched'
  <2>1. \A p \in Products : HasWork(p) => p \in items
    BY DEF IInv, Composed, Blank, HasWork
  <2> QED
    BY <1>2, <1>3, <1>4, <2>1, NothingAsked DEF IInv, Watched, HasWork
<1>8. Acknowledged'
  BY <1>2, <1>3, <1>4 DEF IInv, Waiting, Acknowledged
<1> QED
  BY <1>5, <1>6, <1>7, <1>8 DEF IInv

-----------------------------------------------------------------------------
(* The check. *)

LEMMA KeepsCheck == ASSUME Typed, IInv, Check PROVE IInv'
<1>1. /\ prime = Nothing /\ additional = {} /\ UNCHANGED sessionVars
      /\ UNCHANGED <<revision, recovery, recoveryKeys, prime, additional, disposed, events>>
      /\ \/ /\ enabled # {} /\ baseline' = baseline
            /\ chk' = [NotChecking EXCEPT !.stage = "asked", !.live = TRUE, !.seen = Ask(enabled)]
         \/ /\ chk' = chk
            /\ baseline' = Pruned(baseline, items)
  BY DEF Check, CheckStarts, CanCheck
<1>2. UNCHANGED <<items, enabled, records, wanted>>
  BY <1>1 DEF sessionVars
<1>3. Composed' /\ Waiting' /\ Recovering'
  BY <1>1, <1>2 DEF IInv, Composed, Waiting, Recovering, Priming
<1>4. Alone' /\ Published'
  <2>1. CASE chk' = [NotChecking EXCEPT !.stage = "asked", !.live = TRUE, !.seen = Ask(enabled)] /\ enabled # {}
    <3>1. chk'.seen = Ask(enabled) /\ chk'.stage = "asked"
      BY <2>1 DEF NotChecking
    <3>2. DOMAIN Ask(enabled) = enabled
      BY DEF Ask
    <3> QED
      BY <1>1, <1>2, <2>1, <3>1, <3>2 DEF Alone, Published
  <2>2. CASE chk' = chk
    BY <1>1, <1>2, <2>2 DEF IInv, Alone, Published
  <2> QED
    BY <1>1, <2>1, <2>2
<1>5. \A p \in Products : /\ baseline'[p] = 0 \/ baseline'[p] = baseline[p]
                          /\ p \in items => baseline'[p] = baseline[p]
  BY <1>1 DEF Pruned
<1>6. Watched' /\ Acknowledged'
  <2>1. \A p \in Products : HasWork(p) => p \in items
    BY DEF IInv, Composed, Blank, HasWork
  <2>2. Watched'
    BY <1>1, <1>2, <1>5, <2>1 DEF IInv, Watched, HasWork, Priming
  <2>3. Acknowledged'
    <3> SUFFICES ASSUME NEW p \in Products
                 PROVE  /\ baseline'[p] <= revision[p]
                        /\ records[p].operation = "load" =>
                             records[p].asked # 0 /\ baseline'[p] <= records[p].asked
                        /\ records[p].shown # 0 => baseline'[p] <= records[p].shown
      BY <1>1, <1>2 DEF Acknowledged
    <3>1. CASE p \in items
      <4>1. baseline'[p] = baseline[p]
        BY <1>5, <3>1
      <4> QED
        BY <4>1 DEF IInv, Acknowledged
    <3>2. CASE p \notin items
      <4>1. records[p].operation # "load" /\ records[p].shown = 0
        BY <2>1, <3>2 DEF HasWork
      <4>2. /\ baseline'[p] = 0 \/ baseline'[p] = baseline[p]
            /\ baseline[p] <= revision[p] /\ revision[p] \in Nat
        BY <1>5, BaselineKnown
      <4> QED
        BY <4>1, <4>2
    <3> QED
      BY <3>1, <3>2
  <2> QED
    BY <2>2, <2>3
<1> QED
  BY <1>3, <1>4, <1>6 DEF IInv

LEMMA KeepsNoAnswer == ASSUME Typed, IInv, NoAnswer PROVE IInv'
<1>1. /\ ~chk'.live /\ UNCHANGED <<items, enabled, records, wanted>>
      /\ UNCHANGED <<revision, baseline, recovery, recoveryKeys, prime, additional, events>>
  BY DEF NoAnswer, CheckEndsInVain, sessionVars, NotChecking
<1>2. Composed' /\ Alone' /\ Published' /\ Recovering'
  BY <1>1 DEF IInv, Composed, Alone, Published, Recovering
<1>3. Waiting' /\ Watched' /\ Acknowledged'
  BY <1>1 DEF IInv, Waiting, Watched, Acknowledged, HasWork, Priming
<1> QED
  BY <1>2, <1>3 DEF IInv

\* What is loading or shown while a check counts has a baseline or is to be
\* refreshed.
LEMMA Compared ==
  ASSUME Typed, IInv, chk.live, NEW p \in Products, HasWork(p)
  PROVE  /\ baseline[p] # 0 \/ recovery \/ p \in recoveryKeys
         /\ p \in items
<1>1. DOMAIN prime = {} /\ Priming = {}
  BY NothingAsked DEF IInv, Alone, Priming
<1> QED
  BY <1>1 DEF IInv, Watched, Composed, Blank, HasWork

LEMMA KeepsAnswer == ASSUME Typed, IInv, Answer PROVE IInv'
<1>1. PICK answer \in Answers(chk.seen) :
        LET names      == ChangedIn(answer)
            publishing == names # {} /\ CanRefresh(names)
        IN /\ CheckAnswers(items, answer, publishing)
           /\ records' = [p \in Products |->
                            IF publishing /\ p \in names /\ records[p].operation = "none"
                            THEN [records[p] EXCEPT !.operation = "load", !.asked = revision[p]]
                            ELSE records[p]]
           /\ UNCHANGED <<items, enabled, wanted, edits>>
  BY DEF Answer
<1> DEFINE names      == ChangedIn(answer)
           publishing == names # {} /\ CanRefresh(names)
           first      == FirstSeenIn(answer)
<1>2. /\ chk.stage = "asked" /\ chk.live
      /\ baseline' = Pruned(Recorded(baseline, Restrict(answer, first)), items)
      /\ recovery' = (recovery /\ names # {})
      /\ chk' = IF publishing
                THEN [stage |-> "publishing", live |-> TRUE, seen |-> answer,
                      changed |-> names, done |-> [p \in names |-> "wait"]]
                ELSE NotChecking
      /\ UNCHANGED <<revision, recoveryKeys, prime, additional, events, items, enabled, wanted>>
      /\ records' = [p \in Products |->
                       IF publishing /\ p \in names /\ records[p].operation = "none"
                       THEN [records[p] EXCEPT !.operation = "load", !.asked = revision[p]]
                       ELSE records[p]]
  BY <1>1 DEF CheckAnswers
<1>3. /\ answer \in Requests /\ DOMAIN answer = enabled /\ enabled # {} /\ enabled \subseteq Products
      /\ \A p \in enabled : answer[p] \in 1..revision[p]
  BY <1>2, Answered DEF Typed, TypeOK, Checks, IInv, Alone
<1>4. prime = Nothing /\ Priming = {} /\ Priming' = {}
  BY <1>2 DEF IInv, Alone, Priming
<1>5. /\ names \subseteq enabled
      /\ recovery => names = enabled
      /\ first \subseteq enabled
      /\ \A p \in first : baseline[p] = 0 /\ ~recovery /\ p \notin recoveryKeys
      /\ publishing => \A p \in names : records[p].present /\ records[p].operation = "none"
  BY <1>3 DEF ChangedIn, FirstSeenIn, CanRefresh
<1>6. recovery' = recovery
  BY <1>2, <1>3, <1>5 DEF Typed, TypeOK
<1> HIDE DEF names, first, publishing
<1>7. \A p \in Products :
        \/ ~(publishing /\ p \in names) /\ records'[p] = records[p]
        \/ /\ publishing /\ p \in names /\ records[p].operation = "none" /\ records[p].present
           /\ records'[p].operation = "load" /\ records'[p].asked = revision[p]
           /\ records'[p].shown = records[p].shown /\ records'[p].present
  <2>1. ASSUME NEW p \in Products, publishing, p \in names
        PROVE  records'[p] = [records[p] EXCEPT !.operation = "load", !.asked = revision[p]]
    BY <1>2, <1>5, <2>1
  <2>2. ASSUME NEW p \in Products, ~(publishing /\ p \in names)
        PROVE  records'[p] = records[p]
    BY <1>2, <2>2
  <2>3. \A p \in Products : records[p] \in Record
    BY DEF Typed, TypeOK
  <2>4. ASSUME NEW p \in Products, publishing, p \in names
        PROVE  /\ records[p].operation = "none" /\ records[p].present
               /\ records'[p].operation = "load" /\ records'[p].asked = revision[p]
               /\ records'[p].shown = records[p].shown /\ records'[p].present
    <3> DEFINE r == [records[p] EXCEPT !.operation = "load", !.asked = revision[p]]
    <3>1. r.operation = "load" /\ r.asked = revision[p] /\ r.shown = records[p].shown /\ r.present = records[p].present
      BY <2>3 DEF Record
    <3>2. records[p].operation = "none" /\ records[p].present
      BY <1>5, <2>4
    <3>3. records'[p] = r
      BY <2>1, <2>4
    <3> HIDE DEF r
    <3> QED
      BY <3>1, <3>2, <3>3
  <2> QED
    BY <2>2, <2>4
<1>8. \A p \in Products :
        /\ p \in first /\ p \in items => baseline'[p] = answer[p] /\ ~HasWork(p)
        /\ p \notin first /\ p \in items => baseline'[p] = baseline[p]
        /\ p \notin items => baseline'[p] = 0
  <2>1. \A p \in Products : baseline'[p] = IF p \in items
                                           THEN IF p \in first THEN answer[p] ELSE baseline[p]
                                           ELSE 0
    BY <1>2, <1>3, <1>5 DEF Pruned, Recorded, Restrict
  <2> QED
    BY <1>2, <1>5, <2>1, Compared
<1>9. \A p \in Products : baseline'[p] <= revision[p]
  BY <1>3, <1>5, <1>8, BaselineKnown
<1>10. Composed'
  BY <1>2, <1>3, <1>7 DEF IInv, Composed, Blank
<1>11. Alone' /\ Recovering'
  <2>1. CASE publishing
    BY <1>2, <1>3, <1>6, <2>1 DEF IInv, Alone, Recovering
  <2>2. CASE ~publishing
    BY <1>2, <1>6, <2>2 DEF IInv, Alone, Recovering, NotChecking
  <2> QED
    BY <2>1, <2>2
<1>12. Waiting'
  BY <1>2, <1>4, <1>7, NothingAsked DEF IInv, Waiting
<1>13. Watched'
  <2>0. recovery' = recovery /\ recoveryKeys' = recoveryKeys
    BY <1>2, <1>6
  <2> SUFFICES ASSUME NEW p \in Products, records'[p].shown # 0 \/ records'[p].operation # "none"
               PROVE  baseline'[p] # 0 \/ recovery \/ p \in recoveryKeys
    BY <2>0 DEF Watched, HasWork
  <2>1. p \in items
    BY <1>3, <1>5, <1>7, <1>2 DEF IInv, Composed, Blank, HasWork, Typed, TypeOK
  <2>2. CASE p \in first
    BY <1>3, <1>5, <1>8, <2>1, <2>2
  <2>3. CASE p \notin first /\ p \in enabled
    BY <1>3, <1>4, <1>5, <1>8, <2>1, <2>3 DEF first, FirstSeenIn
  <2>4. CASE p \notin enabled
    <3>1. HasWork(p)
      BY <1>5, <1>7, <2>4 DEF HasWork
    <3>2. baseline[p] # 0 \/ recovery \/ p \in recoveryKeys
      BY <1>2, <3>1, Compared
    <3> QED
      BY <1>5, <1>8, <2>1, <2>4, <3>2
  <2> QED
    BY <2>2, <2>3, <2>4
<1>14. Acknowledged'
  <2> SUFFICES ASSUME NEW p \in Products
               PROVE  /\ records'[p].operation = "load" =>
                           records'[p].asked # 0 /\ baseline'[p] <= records'[p].asked
                      /\ records'[p].shown # 0 => baseline'[p] <= records'[p].shown
    BY <1>2, <1>9 DEF Acknowledged
  <2>1. CASE HasWork(p)
    <3>1. baseline'[p] = baseline[p]
      BY <1>2, <1>8, <2>1, Compared
    <3>2. records'[p].operation = "load" =>
            records'[p].asked = revision[p] \/ records'[p] = records[p]
      BY <1>7
    <3> QED
      BY <1>7, <3>1, <3>2, BaselineKnown DEF IInv, Acknowledged
  <2>2. CASE ~HasWork(p)
    <3>1. records'[p].shown = 0
      BY <1>7, <2>2 DEF HasWork
    <3>2. records'[p].operation = "load" => records'[p].asked = revision[p]
      BY <1>7, <2>2 DEF HasWork
    <3> QED
      BY <1>9, <3>1, <3>2, BaselineKnown
  <2> QED
    BY <2>1, <2>2
<1>15. Published'
  <2>1. CASE publishing
    <3>1. /\ chk'.stage = "publishing" /\ chk'.seen = answer /\ chk'.changed = names
          /\ \A p \in names : chk'.done[p] = "wait"
      BY <1>2, <2>1
    <3>2. \A p \in names : records'[p].operation = "load" /\ records'[p].asked = revision[p]
      BY <1>3, <1>5, <1>7, <2>1
    <3>3. \A p \in enabled : answer[p] <= revision[p]
      BY <1>3, BaselineKnown
    <3>4. revision' = revision /\ recovery' = recovery
      BY <1>2, <1>6
    <3> QED
      BY <1>3, <1>5, <3>1, <3>2, <3>3, <3>4 DEF Published
  <2>2. CASE ~publishing
    BY <1>2, <2>2 DEF Published, NotChecking
  <2> QED
    BY <2>1, <2>2
<1> QED
  BY <1>10, <1>11, <1>12, <1>13, <1>14, <1>15 DEF IInv

\* While everything is to be refreshed, no Product is disabled.
AllRecovered == recovery => enabled = items

\* What the refresh has been accepted for.
LEMMA Accepted ==
  ASSUME Typed, IInv, AllRecovered, chk.live, chk.stage = "publishing",
         \A p \in chk.changed : chk.done[p] = "ok"
  PROVE  /\ chk.changed \subseteq DOMAIN chk.seen /\ DOMAIN chk.seen = enabled
         /\ \A p \in chk.changed :
              /\ chk.seen[p] \in Nat \ {0} /\ chk.seen[p] <= revision[p]
              /\ records[p].operation = "none" /\ chk.seen[p] <= records[p].shown
         /\ recovery => chk.changed = items
<1>1. chk.changed \subseteq DOMAIN chk.seen /\ DOMAIN chk.seen = enabled
  BY DEF Typed, TypeOK, IInv, Alone
<1>2. \A p \in DOMAIN chk.seen : chk.seen[p] \in Nat \ {0}
  BY RequestIs, FreshnessAssumption DEF Typed, TypeOK, Revisions
<1>3. \A p \in chk.changed :
        /\ chk.seen[p] <= revision[p]
        /\ records[p].operation = "none" /\ records[p].shown >= chk.seen[p]
  BY <1>1 DEF IInv, Published
<1>4. \A p \in chk.changed : records[p].shown \in Nat
  BY <1>1, FreshnessAssumption DEF Typed, TypeOK, Record
<1>5. recovery => chk.changed = items
  BY <1>1 DEF AllRecovered, IInv, Published
<1> QED
  BY <1>1, <1>2, <1>3, <1>4, <1>5

LEMMA KeepsFinish == ASSUME Typed, IInv, AllRecovered, Finish PROVE IInv'
<1>1. /\ chk.stage = "publishing" /\ ~chk'.live
      /\ UNCHANGED <<revision, prime, additional, events, items, enabled, records, wanted>>
      /\ \/ UNCHANGED <<baseline, recovery, recoveryKeys>>
         \/ /\ chk.live /\ \A p \in chk.changed : chk.done[p] = "ok"
            /\ recoveryKeys' = recoveryKeys \ chk.changed
            /\ recovery' = FALSE
            /\ baseline' = IF recovery THEN Recorded(Pruned(baseline, {}), chk.seen)
                           ELSE Recorded(baseline, Restrict(chk.seen, chk.changed))
  BY DEF Finish, CheckFinishes, sessionVars, NotChecking
<1>2. Composed' /\ Alone' /\ Published' /\ Waiting'
  BY <1>1 DEF IInv, Composed, Alone, Published, Waiting, Priming
<1>3. Recovering'
  BY <1>1 DEF IInv, Recovering
<1>4. CASE UNCHANGED <<baseline, recovery, recoveryKeys>>
  <2>1. Watched' /\ Acknowledged'
    BY <1>1, <1>4 DEF IInv, Watched, Acknowledged, HasWork, Priming
  <2> QED
    BY <1>2, <1>3, <2>1 DEF IInv
<1>5. CASE /\ chk.live /\ \A p \in chk.changed : chk.done[p] = "ok"
           /\ recoveryKeys' = recoveryKeys \ chk.changed
           /\ recovery' = FALSE
           /\ baseline' = IF recovery THEN Recorded(Pruned(baseline, {}), chk.seen)
                          ELSE Recorded(baseline, Restrict(chk.seen, chk.changed))
  <2>1. /\ chk.changed \subseteq DOMAIN chk.seen /\ DOMAIN chk.seen = enabled
        /\ \A p \in chk.changed :
             /\ chk.seen[p] \in Nat \ {0} /\ chk.seen[p] <= revision[p]
             /\ records[p].operation = "none" /\ chk.seen[p] <= records[p].shown
        /\ recovery => chk.changed = items
    BY <1>1, <1>5, Accepted
  <2>2. \A p \in Products :
          /\ p \in chk.changed => baseline'[p] = chk.seen[p]
          /\ p \notin chk.changed =>
               \/ ~recovery /\ baseline'[p] = baseline[p]
               \/ recovery /\ baseline'[p] = 0 /\ p \notin items
    <3>1. CASE recovery
      <4>1. DOMAIN chk.seen = items /\ chk.changed = items
        BY <2>1, <3>1 DEF Typed, TypeOK
      <4>2. baseline' = [p \in Products |-> IF p \in DOMAIN chk.seen THEN chk.seen[p]
                                            ELSE Pruned(baseline, {})[p]]
        BY <1>5, <3>1 DEF Recorded
      <4> QED
        BY <3>1, <4>1, <4>2 DEF Pruned
    <3>2. CASE ~recovery
      BY <1>5, <2>1, <3>2 DEF Recorded, Restrict
    <3> QED
      BY <3>1, <3>2
  <2>3. \A p \in Products : HasWork(p) => p \in items
    BY DEF IInv, Composed, Blank, HasWork
  <2>4. Watched'
    <3> SUFFICES ASSUME NEW p \in Products, HasWork(p), p \notin chk.changed
                 PROVE  baseline'[p] # 0 \/ p \in recoveryKeys'
      BY <1>1, <2>1, <2>2 DEF Watched, HasWork
    <3>1. ~recovery /\ baseline'[p] = baseline[p]
      BY <2>2, <2>3
    <3>2. baseline[p] # 0 \/ p \in recoveryKeys
      BY <1>5, <3>1, Compared
    <3> QED
      BY <1>5, <3>1, <3>2
  <2>5. Acknowledged'
    <3> SUFFICES ASSUME NEW p \in Products
                 PROVE  /\ baseline'[p] <= revision[p]
                        /\ records[p].operation = "load" =>
                             records[p].asked # 0 /\ baseline'[p] <= records[p].asked
                        /\ records[p].shown # 0 => baseline'[p] <= records[p].shown
      BY <1>1 DEF Acknowledged
    <3>1. CASE p \in chk.changed
      BY <2>1, <2>2, <3>1
    <3>2. CASE p \notin chk.changed /\ ~recovery
      <4>1. baseline'[p] = baseline[p]
        BY <2>2, <3>2
      <4> QED
        BY <4>1 DEF IInv, Acknowledged
    <3>3. CASE p \notin chk.changed /\ recovery
      <4>1. baseline'[p] = 0 /\ ~HasWork(p)
        BY <2>2, <2>3, <3>3
      <4>2. revision[p] \in Nat
        BY BaselineKnown
      <4> QED
        BY <4>1, <4>2 DEF HasWork
    <3> QED
      BY <3>1, <3>2, <3>3
  <2> QED
    BY <1>2, <1>3, <2>4, <2>5 DEF IInv
<1> QED
  BY <1>1, <1>4, <1>5

-----------------------------------------------------------------------------
(* The invariant. *)

\* A Product changes on the server.
LEMMA KeepsChange ==
  ASSUME Typed, IInv, NEW p \in Products, Change(p), UNCHANGED sessionVars
  PROVE  IInv'
<1>1. /\ revision' = [revision EXCEPT ![p] = @ + 1]
      /\ UNCHANGED <<baseline, recovery, recoveryKeys, prime, additional, chk, events>>
      /\ UNCHANGED <<items, enabled, records, wanted>>
  BY DEF Change, sessionVars
<1>2. \A q \in Products : \A n \in Nat : n <= revision[q] => n <= revision'[q]
  <2>1. \A q \in Products : revision[q] \in Nat /\ revision'[q] \in {revision[q], revision[q] + 1}
    BY <1>1, FreshnessAssumption DEF Typed, TypeOK, Revisions
  <2> QED
    BY <2>1
<1>3. Composed' /\ Alone' /\ Waiting' /\ Watched' /\ Recovering'
  BY <1>1 DEF IInv, Composed, Alone, Waiting, Watched, HasWork, Priming, Recovering
<1>4. Acknowledged'
  <2>1. \A q \in Products : baseline[q] <= revision'[q]
    BY <1>2, BaselineKnown
  <2> QED
    BY <1>1, <2>1 DEF IInv, Acknowledged
<1>5. Published'
  <2>1. \A q \in DOMAIN chk.seen : q \in Products /\ chk.seen[q] \in Nat
    BY RequestIs, FreshnessAssumption DEF Typed, TypeOK, Revisions
  <2> QED
    BY <1>1, <1>2, <2>1 DEF IInv, Published
<1> QED
  BY <1>3, <1>4, <1>5 DEF IInv

LEMMA KeepsLeave == ASSUME Typed, IInv, Leave PROVE IInv'
<1>1. /\ additional' = {} /\ baseline' = Pruned(baseline, {}) /\ recovery' = FALSE
      /\ prime' = Nothing /\ ~chk'.live /\ UNCHANGED revision
      /\ items' = {} /\ enabled' = {} /\ wanted' = NotWanted
      /\ records' = [p \in Products |-> NoRecord]
  BY DEF Leave, DestroyMonitor, NotChecking
<1>2. \A p \in Products : records'[p] = NoRecord /\ baseline'[p] = 0
  BY <1>1 DEF Pruned
<1>3. Composed' /\ Alone' /\ Published' /\ Recovering'
  BY <1>1, <1>2 DEF Composed, Blank, NoRecord, NotWanted, Alone, Published, Recovering
<1>4. Waiting'
  BY <1>1, <1>2, NothingAsked DEF Waiting, NoRecord, Priming
<1>5. Watched' /\ Acknowledged'
  BY <1>1, <1>2, BaselineKnown DEF Watched, Acknowledged, HasWork, NoRecord
<1> QED
  BY <1>3, <1>4, <1>5 DEF IInv

LEMMA KeepsNothing == ASSUME IInv, UNCHANGED vars PROVE IInv'
<1>1. UNCHANGED <<monitorVars, sessionVars>>
  BY DEF vars
<1>2. Composed' /\ Alone' /\ Waiting' /\ Watched'
  BY <1>1 DEF monitorVars, sessionVars, IInv, Composed, Alone, Waiting, Watched, HasWork, Priming
<1>3. Acknowledged' /\ Published' /\ Recovering'
  BY <1>1 DEF monitorVars, sessionVars, IInv, Acknowledged, Published, Recovering
<1> QED
  BY <1>2, <1>3 DEF IInv

LEMMA KeepsNext == ASSUME Typed, IInv, AllRecovered, [Next]_vars PROVE IInv'
<1>1. CASE Edits
  BY <1>1, KeepsEdits
<1>2. CASE \E lost \in SUBSET items : Compose(lost)
  BY <1>2, KeepsCompose
<1>3. CASE \E p \in Products : LoadStarts(p) \/ Loaded(p) \/ LoadedInPart(p) \/ LoadFails(p)
  BY <1>3, KeepsStart, KeepsLoad
<1>4. CASE Primed
  BY <1>4, KeepsPrimed
<1>5. CASE Added
  BY <1>5, KeepsAdded
<1>6. CASE Check
  BY <1>6, KeepsCheck
<1>7. CASE Answer
  BY <1>7, KeepsAnswer
<1>8. CASE NoAnswer
  BY <1>8, KeepsNoAnswer
<1>9. CASE Finish
  BY <1>9, KeepsFinish
<1>10. CASE \E p \in Products : Change(p) /\ UNCHANGED sessionVars
  BY <1>10, KeepsChange
<1>11. CASE Leave
  BY <1>11, KeepsLeave
<1>12. CASE UNCHANGED vars
  BY <1>12, KeepsNothing
<1> QED
  BY <1>1, <1>2, <1>3, <1>4, <1>5, <1>6, <1>7, <1>8, <1>9, <1>10, <1>11, <1>12 DEF Next

LEMMA IInvShows == Typed /\ IInv => BaselineShown /\ ObligationKept
<1>1. IInv => BaselineShown
  BY DEF IInv, Acknowledged, BaselineShown
<1>2. Typed => \A p \in items : p \in Products
  BY DEF Typed, TypeOK
<1>3. Typed /\ IInv => ObligationKept
  BY <1>2 DEF IInv, Watched, Waiting, HasWork, ObligationKept
<1> QED
  BY <1>1, <1>3

LEMMA ReviewInit == Init => Typed /\ IInv
  BY TypedInit, Initially

\* As long as no Product is disabled while the recovery of all is pending, the
\* monitor acknowledges no revision that is newer than the payload the page has,
\* errors in that payload included, and forgets no Product with content, in any
\* scenario: every other failure, partial ones included, and every edit, load,
\* prime and check may come together. The run review_recovery shows that the premise is the right one:
\* the recovery of the enabled Products leaves a disabled one without a baseline.
THEOREM RecoveryOfAll == Spec /\ []AllRecovered => [](BaselineShown /\ ObligationKept)
<1>1. Typed /\ IInv /\ AllRecovered /\ [Next]_vars => (Typed /\ IInv)'
  BY TypedNext, KeepsNext
<1> QED
  BY <1>1, ReviewInit, IInvShows, PTL DEF Spec

\* No scenario combines failing full primes with disabled Products.
Separate == \A scenario \in Scenarios : ~({"prime", "disable"} \subseteq scenario)

LEMMA ReviewSound == ASSUME Separate PROVE Spec => [](Typed /\ IInv)
<1>1. Typed /\ IInv => AllRecovered
  <2>1. Typed => ~({"prime", "disable"} \subseteq events)
    BY DEF Typed, TypeOK, Separate
  <2> QED
    BY <2>1 DEF IInv, Recovering, Composed, AllRecovered
<1>2. Typed /\ IInv /\ AllRecovered /\ [Next]_vars => (Typed /\ IInv)'
  BY TypedNext, KeepsNext
<1> QED
  BY <1>1, <1>2, ReviewInit, PTL DEF Spec

\* The monitor acknowledges a revision only when the payload of the Product was
\* read at that revision or later, whatever is edited, loaded, primed and checked
\* in between. A payload can have errors in the place of contents, first loads
\* and refreshes alike; those were met at that revision or later too, and no
\* check retries them (FailureNotAcknowledged, which the code does not keep). The
\* scenarios are the ones in which RecoveryOfAll's premise cannot fail.
THEOREM NothingMissed == ASSUME Separate PROVE Spec => []BaselineShown
  BY ReviewSound, IInvShows, PTL

\* A Product of the page that has content, enabled or not, has a baseline that a
\* check compares, or is remembered by the full recovery, by name, or by the
\* prime that is asked for it: a failed request never leaves it unwatched.
THEOREM NothingUnwatched == ASSUME Separate PROVE Spec => []ObligationKept
  BY ReviewSound, IInvShows, PTL

=============================================================================
