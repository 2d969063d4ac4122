----------------------------- MODULE DataSources -----------------------------
(***************************************************************************)
(* The Product sources of the main map: the controller that loads, shows,  *)
(* refreshes and removes them, its startup and its reset, the coordinators *)
(* of full and of targeted refreshes, the map layers, the filter and       *)
(* search providers that follow them, and the selection kept in the        *)
(* browser's storage.                                                      *)
(*                                                                         *)
(* The code between two awaits is one action.  An activation waits for its *)
(* payload and for its layers; newer operations of the same source, which  *)
(* have a larger generation, supersede it, and it finds out at its next    *)
(* step.                                                                   *)
(***************************************************************************)
EXTENDS Naturals, FiniteSets

CONSTANTS
    Sources,        \* the sources the deployment lets the user select
    Defaults,       \* those that are enabled on a first visit and by a reset
    Products,       \* the Products of a source
    Resets,         \* names for resets that are under way at the same time
    Scenarios,      \* sets of events, one of which is chosen at the start:
                    \* "outage": a source may not load at startup or in a reset
                    \* "hurry": the user may switch a source during a reset
    MaxGeneration, MaxVersion,      \* bounds on operations and on changes
    None

ASSUME SourcesAssumption ==
    /\ Sources # {} /\ Defaults \subseteq Sources
    /\ MaxGeneration \in Nat /\ MaxVersion \in Nat
    /\ \A choice \in SUBSET Sources : choice # None
    /\ None \notin [Products -> Nat]
    /\ Resets \cap {"user", "startup", "refresh"} = {}

Callers == {"user", "startup", "refresh"} \cup Resets

VARIABLES
    version,    \* what the backend knows, counted in changes
    events,     \* the scenario
    state,      \* sourceStates
    context,    \* operationContexts: the operation that owns a source, not aborted
    operations, \* the activations under way
    reads,      \* the targeted status reads under way
    shown,      \* per source the version of each Product on the map, None without layers
    provider,   \* the filter and search provider of a source
    running,    \* startup, refresh and resets that wait for their activations
    page,       \* "new" until initialize is called
    restored,   \* what startup is to write at its end, None if the storage has it
    newer,      \* selectionRevision has changed since startup began
    stored,     \* the selection in the browser's storage, None before the first write
    intent      \* what the user chose last (startup, switches, resets)

outside == <<version, events>>
sourceVars == <<state, context>>
displayVars == <<shown, provider>>
startupVars == <<page, restored, newer>>
choiceVars == <<stored, intent>>
vars == <<outside, sourceVars, operations, reads, displayVars, running, startupVars, choiceVars>>

Contents == [Products -> 0 .. MaxVersion]

TypeOK ==
    /\ version \in 0 .. MaxVersion /\ events \in Scenarios
    /\ state \in [Sources -> [requested : BOOLEAN, enabled : BOOLEAN, loading : BOOLEAN, gen : Nat]]
    /\ context \in [Sources -> [gen : Nat, live : BOOLEAN]]
    /\ operations \subseteq [source : Sources, gen : Nat, persist : BOOLEAN, was : BOOLEAN,
                             caller : Callers, at : {"load", "payload", "layers"},
                             data : Contents \cup {None}]
    /\ reads \subseteq [source : Sources, product : Products, gen : Nat,
                        at : {"queued", "sent", "answered"}, data : 0 .. MaxVersion]
    /\ shown \in [Sources -> Contents \cup {None}]
    /\ provider \in [Sources -> [on : BOOLEAN, gen : Nat]]
    /\ running \subseteq Callers
    /\ page \in {"new", "open"} /\ newer \in BOOLEAN
    /\ restored \in (SUBSET Sources) \cup {None}
    /\ stored \in (SUBSET Sources) \cup {None}
    /\ intent \subseteq Sources

\* A page that has just been opened.
Blank == [requested |-> FALSE, enabled |-> FALSE, loading |-> FALSE, gen |-> 0]

NoContext == [gen |-> 0, live |-> FALSE]

NoProvider == [on |-> FALSE, gen |-> 0]

Init ==
    /\ version = 0 /\ events \in Scenarios
    /\ state = [s \in Sources |-> Blank]
    /\ context = [s \in Sources |-> NoContext]
    /\ operations = {} /\ reads = {} /\ running = {}
    /\ shown = [s \in Sources |-> None]
    /\ provider = [s \in Sources |-> NoProvider]
    /\ page = "new" /\ restored = None /\ newer = FALSE
    /\ stored \in (SUBSET Sources) \cup {None}
    /\ intent = {}

-----------------------------------------------------------------------------
(* Filter and search providers: a publication or removal that is older than *)
(* the latest one of its provider changes nothing.                          *)

Publish(p, g) ==
    IF g < p.gen \/ (~p.on /\ g = p.gen) THEN p ELSE [on |-> TRUE, gen |-> g]

Unpublish(p, g) == IF g < p.gen THEN p ELSE [on |-> FALSE, gen |-> g]

\* Mutants of Suspend.
SuspendEarly(p) == [on |-> FALSE, gen |-> p.gen - 1]

SuspendLate(p) == [on |-> FALSE, gen |-> p.gen + 2]

\* A failed activation has no generation to go by and takes the next one.
Suspend(p) == [on |-> FALSE, gen |-> p.gen + 1]

-----------------------------------------------------------------------------
(* Operations of the controller. *)

Requested == {s \in Sources : state[s].requested}

\* Mutant of Active: every source that has been loaded or switched off.
Known == {s \in Sources : state[s].gen > 0}

Active == {s \in Sources : state[s].enabled}

\* beginOperation and what activateSource does before its first await, for the
\* sources in S, from the states `from`.
Activation(S, from, persist, caller) ==
    LET started(s) == from[s].gen + 1 IN
    /\ \A s \in S : started(s) <= MaxGeneration
    /\ state' = [s \in Sources |->
            IF s \in S
            THEN [from[s] EXCEPT !.requested = TRUE, !.loading = TRUE, !.gen = started(s)]
            ELSE from[s]]
    /\ context' = [s \in Sources |->
            IF s \in S THEN [gen |-> started(s), live |-> TRUE]
            ELSE IF from[s] = state[s] THEN context[s]
            ELSE [gen |-> from[s].gen, live |-> FALSE]]
    /\ operations' = operations \cup
            {[source |-> s, gen |-> started(s), persist |-> persist, was |-> from[s].enabled,
              caller |-> caller, at |-> "load", data |-> None] : s \in S}

\* What deactivateSource leaves of a source.
Off(s) ==
    [requested |-> FALSE, enabled |-> FALSE, loading |-> FALSE, gen |-> state[s].gen + 1]

\* isCurrentOperation
IsCurrent(o) == state[o.source].gen = o.gen /\ state[o.source].requested

\* persistCurrentState
PersistCurrent == stored' = {s \in Sources : state'[s].requested}

\* Where stored intent is empty, one source is recovered.
Fallback == CHOOSE s \in (IF Defaults = {} THEN Sources ELSE Defaults) : TRUE

StartupSelection ==
    IF stored = None THEN Defaults ELSE IF stored = {} THEN {Fallback} ELSE stored

\* initialize: every selected source is activated at once.
Initialize ==
    /\ page = "new"
    /\ page' = "open"
    /\ Activation(StartupSelection, state, FALSE, "startup")
    /\ running' = {"startup"}
    /\ restored' = IF stored \in {None, {}} THEN StartupSelection ELSE None
    /\ newer' = FALSE
    /\ intent' = StartupSelection
    /\ UNCHANGED <<outside, reads, displayVars, stored>>

\* A switch of the panel turns a source on.
Enable(s) ==
    /\ page = "open" /\ ~state[s].requested
    /\ running \cap Resets = {} \/ "hurry" \in events
    /\ Activation({s}, state, TRUE, "user")
    /\ newer' = TRUE
    /\ intent' = intent \cup {s}
    /\ UNCHANGED <<outside, reads, displayVars, running, page, restored, stored>>

\* A switch turns it off: deactivateSource waits for nothing.
Disable(s) ==
    /\ page = "open" /\ state[s].requested
    /\ running \cap Resets = {} \/ "hurry" \in events
    /\ state[s].gen < MaxGeneration
    /\ state' = [state EXCEPT ![s] = Off(s)]
    /\ context' = [context EXCEPT ![s] = [gen |-> state[s].gen + 1, live |-> FALSE]]
    /\ shown' = [shown EXCEPT ![s] = None]
    /\ provider' = [provider EXCEPT ![s] = Unpublish(@, state[s].gen + 1)]
    /\ PersistCurrent
    /\ newer' = TRUE
    /\ intent' = intent \ {s}
    /\ UNCHANGED <<outside, operations, reads, running, page, restored>>

\* resetToDefaults: all sources are off before the first default is loaded.
Reset(r) ==
    /\ page = "open" /\ r \notin running
    /\ running' = running \cup {r}
    /\ Activation(Defaults, [s \in Sources |-> Off(s)], FALSE, r)
    /\ shown' = [s \in Sources |-> None]
    /\ provider' = [s \in Sources |-> Unpublish(provider[s], state[s].gen + 1)]
    /\ newer' = TRUE
    /\ intent' = Defaults
    /\ UNCHANGED <<outside, reads, page, restored, stored>>

\* The refresh button, the timer, or a job that has ended; one at a time.
Refresh ==
    /\ page = "open" /\ "refresh" \notin running
    /\ Activation(Active, state, FALSE, "refresh")
    /\ running' = running \cup {"refresh"}
    /\ UNCHANGED <<outside, reads, displayVars, startupVars, choiceVars>>

-----------------------------------------------------------------------------
(* An activation after its first await. *)

\* The backend reads what it sends.
Load(o) ==
    /\ o.at = "load"
    /\ operations' = (operations \ {o}) \cup
            {[o EXCEPT !.at = "payload", !.data = [p \in Products |-> version]]}
    /\ UNCHANGED <<outside, sourceVars, reads, displayVars, running, startupVars, choiceVars>>

\* The payload has arrived and is normalized; prepareSource builds the layers.
Prepare(o) ==
    /\ o.at = "payload" /\ IsCurrent(o)
    /\ operations' = (operations \ {o}) \cup {[o EXCEPT !.at = "layers"]}
    /\ UNCHANGED <<outside, sourceVars, reads, displayVars, running, startupVars, choiceVars>>

\* commitSource and what follows it.
Commit(o) ==
    /\ o.at = "layers" /\ IsCurrent(o)
    /\ operations' = operations \ {o}
    /\ state' = [state EXCEPT ![o.source].enabled = TRUE, ![o.source].loading = FALSE]
    /\ shown' = [shown EXCEPT ![o.source] = o.data]
    /\ provider' = [provider EXCEPT ![o.source] = Publish(@, o.gen)]
    /\ IF o.persist THEN PersistCurrent ELSE UNCHANGED stored
    /\ UNCHANGED <<outside, context, reads, running, startupVars, intent>>

\* The request, the payload or the layers fail.  What was shown before stays.
Fail(o) ==
    /\ IsCurrent(o)
    /\ o.caller \in {"user", "refresh"} \/ "outage" \in events
    /\ operations' = operations \ {o}
    /\ state' = [state EXCEPT ![o.source].requested = o.was, ![o.source].enabled = o.was,
                              ![o.source].loading = FALSE]
    /\ IF o.was THEN UNCHANGED displayVars
       ELSE /\ shown' = [shown EXCEPT ![o.source] = None]
            /\ provider' = [provider EXCEPT ![o.source] = Suspend(@)]
    /\ IF o.persist THEN PersistCurrent ELSE UNCHANGED stored
    /\ intent' = IF o.persist /\ ~o.was THEN intent \ {o.source} ELSE intent
    /\ UNCHANGED <<outside, context, reads, running, startupVars>>

\* A superseded activation finds out, in whatever way its await ends.
Superseded(o) ==
    /\ ~IsCurrent(o)
    /\ operations' = operations \ {o}
    /\ UNCHANGED <<outside, sourceVars, reads, displayVars, running, startupVars, choiceVars>>

\* Mutant of FinishStartup: it does not look for newer choices.
FinishStartupAlways ==
    /\ "startup" \in running /\ \A o \in operations : o.caller # "startup"
    /\ running' = running \ {"startup"}
    /\ stored' = IF restored # None THEN restored ELSE stored
    /\ UNCHANGED <<outside, sourceVars, operations, reads, displayVars, startupVars, intent>>

\* Mutant of FinishRefresh: without an active source the refresh does not end.
FinishRefreshActive ==
    /\ "refresh" \in running /\ \A o \in operations : o.caller # "refresh"
    /\ Active # {}
    /\ running' = running \ {"refresh"}
    /\ stored' = Requested
    /\ UNCHANGED <<outside, sourceVars, operations, reads, displayVars, startupVars, intent>>

Waits(c) == \E o \in operations : o.caller = c

\* The end of initialize, of refreshActive and of resetToDefaults.
FinishStartup ==
    /\ "startup" \in running /\ ~Waits("startup")
    /\ running' = running \ {"startup"}
    /\ stored' = IF ~newer /\ restored # None THEN restored ELSE stored
    /\ UNCHANGED <<outside, sourceVars, operations, reads, displayVars, startupVars, intent>>

FinishRefresh ==
    /\ "refresh" \in running /\ ~Waits("refresh")
    /\ running' = running \ {"refresh"}
    /\ stored' = Requested
    /\ UNCHANGED <<outside, sourceVars, operations, reads, displayVars, startupVars, intent>>

FinishReset(r) ==
    /\ r \in running /\ ~Waits(r)
    /\ running' = running \ {r}
    /\ stored' = Defaults
    /\ UNCHANGED <<outside, sourceVars, operations, reads, displayVars, startupVars, intent>>

-----------------------------------------------------------------------------
(* Targeted status reads.  A read belongs to the operation that owned its    *)
(* source when it was asked for; a source that loads or is switched off has  *)
(* another one, which is when the coordinator forgets its reads.             *)

Steady(s) == state[s].enabled /\ state[s].requested /\ ~state[s].loading

InFlight(s, p) ==
    \E r \in reads : r.source = s /\ r.product = p /\ r.gen = context[s].gen

RequestStatus(s, p) ==
    /\ Steady(s) /\ "refresh" \notin running
    /\ ~InFlight(s, p)
    /\ reads' = reads \cup {[source |-> s, product |-> p, gen |-> context[s].gen,
                             at |-> "queued", data |-> 0]}
    /\ UNCHANGED <<outside, sourceVars, operations, displayVars, running, startupVars, choiceVars>>

\* Mutant of Owns: whatever operation owns the source now.
OwnsAny(r) == context[r.source].live

\* Its context is the one that owns the source, and has not been aborted.
Owns(r) == r.gen = context[r.source].gen /\ context[r.source].live

\* A microtask later the conditions are looked at again.
SendStatus(r) ==
    /\ r.at = "queued"
    /\ Owns(r) /\ Steady(r.source) /\ "refresh" \notin running
    /\ reads' = (reads \ {r}) \cup {[r EXCEPT !.at = "sent"]}
    /\ UNCHANGED <<outside, sourceVars, operations, displayVars, running, startupVars, choiceVars>>

AnswerStatus(r) ==
    /\ r.at = "sent"
    /\ reads' = (reads \ {r}) \cup {[r EXCEPT !.at = "answered", !.data = version]}
    /\ UNCHANGED <<outside, sourceVars, operations, displayVars, running, startupVars, choiceVars>>

\* publishProductStatus: an accepted change is a new generation of the source,
\* which other reads of the same operation survive.
PublishStatus(r) ==
    LET s == r.source IN
    /\ r.at = "answered"
    /\ Owns(r) /\ Steady(s)
    /\ reads' = reads \ {r}
    /\ IF shown[s][r.product] = r.data THEN UNCHANGED <<state, displayVars>>
       ELSE /\ state[s].gen < MaxGeneration
            /\ state' = [state EXCEPT ![s].gen = @ + 1]
            /\ shown' = [shown EXCEPT ![s][r.product] = r.data]
            /\ provider' = [provider EXCEPT ![s] = Publish(@, state[s].gen + 1)]
    /\ UNCHANGED <<outside, context, operations, running, startupVars, choiceVars>>

\* It fails, finds no Graphic, or belongs to an operation that is over.
DropStatus(r) ==
    /\ reads' = reads \ {r}
    /\ UNCHANGED <<outside, sourceVars, operations, displayVars, running, startupVars, choiceVars>>

-----------------------------------------------------------------------------
(* Outside of the page. *)

Change ==
    /\ version < MaxVersion
    /\ version' = version + 1
    /\ UNCHANGED <<events, sourceVars, operations, reads, displayVars, running, startupVars, choiceVars>>

\* The page goes away; only the storage stays.
Reload ==
    /\ page = "open"
    /\ state' = [s \in Sources |-> Blank]
    /\ context' = [s \in Sources |-> NoContext]
    /\ operations' = {} /\ reads' = {} /\ running' = {}
    /\ shown' = [s \in Sources |-> None]
    /\ provider' = [s \in Sources |-> NoProvider]
    /\ page' = "new" /\ restored' = None /\ newer' = FALSE
    /\ intent' = {}
    /\ UNCHANGED <<outside, stored>>

-----------------------------------------------------------------------------

Switch == \E s \in Sources : Enable(s) \/ Disable(s)

Proceed(o) == Load(o) \/ Prepare(o) \/ Commit(o) \/ Fail(o) \/ Superseded(o)

Finish == FinishStartup \/ FinishRefresh \/ \E r \in Resets : FinishReset(r)

Status ==
    \/ \E s \in Sources, p \in Products : RequestStatus(s, p)
    \/ \E r \in reads : SendStatus(r) \/ AnswerStatus(r) \/ PublishStatus(r) \/ DropStatus(r)

Next ==
    \/ Initialize \/ Switch \/ Refresh
    \/ \E r \in Resets : Reset(r)
    \/ \E o \in operations : Proceed(o)
    \/ Finish \/ Status \/ Change \/ Reload

\* Requests are answered or fail, and what waits for them goes on.
Fairness ==
    /\ \A s \in Sources, g \in 1 .. MaxGeneration :
            WF_vars(\E o \in operations : o.source = s /\ o.gen = g /\ Proceed(o))
    /\ WF_vars(Finish)

Spec == Init /\ [][Next]_vars /\ Fairness

-----------------------------------------------------------------------------
(* Properties. *)

\* What is on the map, what can be filtered and searched, and what the panel
\* shows as enabled are the same sources: no superseded, failed or late
\* operation leaves layers or providers of a source that is off.
DisplayAgrees ==
    \A s \in Sources :
        /\ state[s].enabled <=> shown[s] # None
        /\ provider[s].on <=> shown[s] # None

\* A source comes on only if the user wants it: no activation of startup, of an
\* earlier switch or of an earlier reset brings back what was switched off.
OnlyIfWanted ==
    [][\A s \in Sources : state'[s].enabled /\ ~state[s].enabled => s \in intent]_vars

\* While a source stays on the map, no Product goes back to an older status:
\* not by a slow refresh, and not by a targeted read that ends late.
NeverOlder ==
    [][\A s \in Sources : shown[s] # None /\ shown'[s] # None =>
            \A p \in Products : shown'[s][p] >= shown[s][p]]_vars

Quiet == page = "open" /\ operations = {} /\ running = {}

\* Once everything has ended, the storage has what the user chose last, and the
\* next visit starts from it - as long as sources load, and nothing is chosen
\* while a reset is under way.
StoredIsIntent == events = {} /\ Quiet => stored = intent

\* A refresh ends, so that the next one is not skipped, whatever supersedes the
\* loads it waits for.
RefreshEnds == "refresh" \in running ~> "refresh" \notin running

=============================================================================
