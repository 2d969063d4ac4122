-------------------------- MODULE FreshnessMonitor --------------------------
(***************************************************************************)
(* The monitor of a workspace page that notices when Products change on    *)
(* the server (createWorkspaceFreshnessMonitor). It keeps a baseline       *)
(* revision for each Product and compares it with what a periodic check    *)
(* reads. Its operations take what the page tells it by callbacks: the     *)
(* names to check, the names to retain, and whether a refresh was          *)
(* accepted.                                                               *)
(*                                                                         *)
(* Everything runs on one event loop; an await is a place where other      *)
(* operations come between. A request that is under way is represented by  *)
(* the revisions at the time it was sent: the server answers with any      *)
(* revision from then on. The generation and epoch numbers, which are only *)
(* compared with an earlier copy, become one mark, live, on a check.       *)
(***************************************************************************)
EXTENDS Naturals, FiniteSets, Functions

CONSTANTS
  Products,     \* the Products a page can show
  MaxRevision,  \* bound on the revisions of one Product
  Scenarios     \* sets of the requests that can fail and of the edits that are made

EventKinds == {"prime", "additional", "check", "load", "content", "resolution", "disable"}

ASSUME FreshnessAssumption == MaxRevision \in Nat \ {0} /\ Scenarios \subseteq SUBSET EventKinds

VARIABLES
  events,        \* the scenario, chosen once
  revision,      \* revision of each Product on the server
  baseline,      \* revisions: 0 is a Product without an entry
  recovery,      \* recoveryRefreshRequired
  recoveryKeys,  \* additionalRecoveryKeys
  prime,         \* inFlightPrime: its names, with their revisions when asked
  additional,    \* additionalPrimes: one such function for each promise
  chk,           \* inFlightCheck
  disposed

monitorVars == <<revision, baseline, recovery, recoveryKeys, prime, additional, chk, disposed, events>>

Revisions == 1..MaxRevision

\* Requests, and answers to a request: functions on a set of Products.
Requests == UNION {[names -> Revisions] : names \in SUBSET Products}

Nothing == [p \in {} |-> 0]

NotChecking ==
  [stage |-> "idle", live |-> FALSE, seen |-> Nothing, changed |-> {}, done |-> Nothing]

\* A request for some names that is sent now.
Ask(names) == [p \in names |-> revision[p]]

\* What the server can answer to a request by now.
Answers(asked) ==
  {answer \in [DOMAIN asked -> Revisions] :
     \A p \in DOMAIN asked : answer[p] \in asked[p]..revision[p]}

\* The Products whose additional baseline is still being read.
Priming == UNION {DOMAIN asked : asked \in additional}

\* pruneRevisions
Pruned(entries, names) == [p \in Products |-> IF p \in names THEN entries[p] ELSE 0]

\* Entries of an answer put over the present ones.
Recorded(entries, answer) ==
  [p \in Products |-> IF p \in DOMAIN answer THEN answer[p] ELSE entries[p]]

\* The requests without the names they have lost.
Owned(requests, names) ==
  {Restrict(asked, DOMAIN asked \cap names) : asked \in requests} \ {Nothing}

-----------------------------------------------------------------------------

InitMonitor ==
  /\ events \in Scenarios
  /\ revision = [p \in Products |-> 1]
  /\ baseline = [p \in Products |-> 0]
  /\ recovery = FALSE
  /\ recoveryKeys = {}
  /\ prime = Nothing
  /\ additional = {}
  /\ chk = NotChecking
  /\ disposed = FALSE

\* A Product changes on the server.
Change(p) ==
  /\ revision[p] < MaxRevision
  /\ revision' = [revision EXCEPT ![p] = @ + 1]
  /\ UNCHANGED <<baseline, recovery, recoveryKeys, prime, additional, chk, disposed, events>>

\* retain, then prime of the new names.
RetainAndPrime(kept, names, check) ==
  /\ additional' = {}
  /\ recoveryKeys' = {}
  /\ chk' = [check EXCEPT !.live = FALSE]
  /\ prime' = Ask(names)
  /\ baseline' = IF names = {} THEN Pruned(baseline, {}) ELSE Pruned(baseline, kept)
  /\ recovery' = (names # {} /\ recovery)

\* Mutant of RetainAndAdd: a name that is being primed is primed again.
RetainAndAddAgain(kept, names, check) ==
  LET owned == Owned(additional, kept)
  IN /\ additional' = owned \cup ({Ask(names)} \ {Nothing})
     /\ recoveryKeys' = recoveryKeys \cap kept
     /\ chk' = [check EXCEPT !.live = FALSE]
     /\ baseline' = Pruned(baseline, kept)
     /\ UNCHANGED <<prime, recovery>>

\* retain, then primeAdditional of the new names that are not being primed.
RetainAndAdd(kept, names, check) ==
  LET owned   == Owned(additional, kept)
      missing == names \ UNION {DOMAIN asked : asked \in owned}
  IN /\ additional' = owned \cup ({Ask(missing)} \ {Nothing})
     /\ recoveryKeys' = recoveryKeys \cap kept
     /\ chk' = [check EXCEPT !.live = FALSE]
     /\ baseline' = Pruned(baseline, kept)
     /\ UNCHANGED <<prime, recovery>>

\* A prime ends. Additional primes have waited for it and ask now.
PrimeEnds ==
  /\ prime # Nothing
  /\ prime' = Nothing
  /\ additional' = {Ask(DOMAIN asked) : asked \in additional}
  /\ UNCHANGED <<revision, recoveryKeys, chk, disposed, events>>

PrimeAnswers ==
  /\ PrimeEnds
  /\ \E answer \in Answers(prime) :
       baseline' = Recorded(Pruned(baseline, {}), answer)
  /\ recovery' = FALSE

\* Mutant of PrimeFails: a failed prime is left to the next check.
PrimeForgotten ==
  /\ "prime" \in events
  /\ PrimeEnds
  /\ baseline' = Pruned(baseline, {})
  /\ UNCHANGED recovery

PrimeFails ==
  /\ "prime" \in events
  /\ PrimeEnds
  /\ baseline' = Pruned(baseline, {})
  /\ recovery' = TRUE

AdditionalAnswers(kept) ==
  /\ prime = Nothing
  /\ \E asked \in additional :
       /\ additional' = additional \ {asked}
       /\ \E answer \in Answers(asked) :
            baseline' = Recorded(baseline, Restrict(answer, DOMAIN answer \cap kept))
       /\ recoveryKeys' = recoveryKeys \ (DOMAIN asked \cap kept)
  /\ UNCHANGED <<revision, recovery, prime, chk, disposed, events>>

\* Mutant of AdditionalFails: the failed Products are not remembered.
AdditionalForgotten ==
  /\ "additional" \in events
  /\ prime = Nothing
  /\ \E asked \in additional : additional' = additional \ {asked}
  /\ UNCHANGED <<revision, baseline, recovery, recoveryKeys, prime, chk, disposed, events>>

AdditionalFails ==
  /\ "additional" \in events
  /\ prime = Nothing
  /\ \E asked \in additional :
       /\ additional' = additional \ {asked}
       /\ recoveryKeys' = recoveryKeys \cup DOMAIN asked
  /\ UNCHANGED <<revision, baseline, recovery, prime, chk, disposed, events>>

-----------------------------------------------------------------------------
(* A check. *)

CanCheck == ~disposed /\ prime = Nothing /\ additional = {} /\ chk.stage = "idle"

CheckStarts(names, kept) ==
  /\ CanCheck
  /\ \/ /\ names # {}
        /\ chk' = [NotChecking EXCEPT !.stage = "asked", !.live = TRUE, !.seen = Ask(names)]
        /\ UNCHANGED baseline
     \/ /\ names = {}
        /\ baseline' = Pruned(baseline, kept)
        /\ UNCHANGED chk
  /\ UNCHANGED <<revision, recovery, recoveryKeys, prime, additional, disposed, events>>

\* The request fails, or what it is about is over by the time it ends.
CheckEndsInVain ==
  /\ chk.stage = "asked"
  /\ "check" \in events \/ ~chk.live
  /\ chk' = NotChecking
  /\ UNCHANGED <<revision, baseline, recovery, recoveryKeys, prime, additional, disposed, events>>

\* Products of an answer that the page has to refresh.
ChangedIn(answer) ==
  LET names == DOMAIN answer
  IN IF recovery THEN names
     ELSE (names \cap recoveryKeys) \cup
          {p \in names \ Priming : baseline[p] \notin {0, answer[p]}}

\* Products of an answer that have no baseline and get one.
FirstSeenIn(answer) ==
  IF recovery THEN {}
  ELSE {p \in DOMAIN answer \ (Priming \cup recoveryKeys) : baseline[p] = 0}

\* An answer without changes ends the check; with changes, the page takes over.
CheckAnswers(kept, answer, publishing) ==
  /\ chk.stage = "asked" /\ chk.live
  /\ answer \in Answers(chk.seen)
  /\ baseline' = Pruned(Recorded(baseline, Restrict(answer, FirstSeenIn(answer))), kept)
  /\ recovery' = (recovery /\ ChangedIn(answer) # {})
  /\ chk' = IF publishing
            THEN [stage |-> "publishing", live |-> TRUE, seen |-> answer,
                  changed |-> ChangedIn(answer),
                  done |-> [p \in ChangedIn(answer) |-> "wait"]]
            ELSE NotChecking
  /\ UNCHANGED <<revision, recoveryKeys, prime, additional, disposed, events>>

\* Mutant of CheckFinishes: the page's refusal is not asked for.
CheckFinishesAnyway(accepted) ==
  /\ chk.stage = "publishing"
  /\ chk' = NotChecking
  /\ IF chk.live
     THEN /\ recoveryKeys' = recoveryKeys \ chk.changed
          /\ recovery' = FALSE
          /\ baseline' = IF recovery THEN Recorded(Pruned(baseline, {}), chk.seen)
                         ELSE Recorded(baseline, Restrict(chk.seen, chk.changed))
     ELSE UNCHANGED <<baseline, recovery, recoveryKeys>>
  /\ UNCHANGED <<revision, prime, additional, disposed, events>>

\* onChanged has returned.
CheckFinishes(accepted) ==
  /\ chk.stage = "publishing"
  /\ chk' = NotChecking
  /\ IF accepted /\ chk.live
     THEN /\ recoveryKeys' = recoveryKeys \ chk.changed
          /\ recovery' = FALSE
          /\ baseline' = IF recovery THEN Recorded(Pruned(baseline, {}), chk.seen)
                         ELSE Recorded(baseline, Restrict(chk.seen, chk.changed))
     ELSE UNCHANGED <<baseline, recovery, recoveryKeys>>
  /\ UNCHANGED <<revision, prime, additional, disposed, events>>

\* destroy
DestroyMonitor ==
  /\ disposed' = TRUE
  /\ additional' = {}
  /\ recoveryKeys' = {}
  /\ baseline' = Pruned(baseline, {})
  /\ recovery' = FALSE
  /\ prime' = Nothing
  /\ chk' = NotChecking
  /\ UNCHANGED <<revision, events>>
=============================================================================
