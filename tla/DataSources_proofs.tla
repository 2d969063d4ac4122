-------------------------- MODULE DataSources_proofs --------------------------
(***************************************************************************)
(* The Product sources of the main map, for every number of sources,       *)
(* Products and resets, every bound and every choice of scenarios: types,  *)
(* the agreement of panel, layers and providers, that a source comes on    *)
(* only if it is wanted, that no Product goes back to an older status, and *)
(* that the storage ends with the user's last choice.                      *)
(*                                                                         *)
(* The types need the agreement (a status is published into layers that    *)
(* exist), and the agreement needs the order of the generations, which is  *)
(* the first part of the argument (Core). The status of a Product (Newest) *)
(* and the choices of the user (Choices) rest on it.                       *)
(***************************************************************************)
EXTENDS DataSources, TLAPS

-----------------------------------------------------------------------------
(* The inductive invariant. *)

State == [requested : BOOLEAN, enabled : BOOLEAN, loading : BOOLEAN, gen : Nat]

Operation ==
    [source : Sources, gen : Nat, persist : BOOLEAN, was : BOOLEAN, caller : Callers,
     at : {"load", "payload", "layers"}, data : Contents \cup {None}]

Read ==
    [source : Sources, product : Products, gen : Nat,
     at : {"queued", "sent", "answered"}, data : 0 .. MaxVersion]

\* Nothing has a generation that its source has not reached.
Ordered ==
    /\ \A s \in Sources : provider[s].gen <= state[s].gen /\ context[s].gen <= state[s].gen
    /\ \A o \in operations : o.gen <= state[o.source].gen
    /\ \A r \in reads : r.gen <= context[r.source].gen

\* A generation has one activation, and one read of each Product.
Single ==
    /\ \A o, q \in operations : o.source = q.source /\ o.gen = q.gen => o = q
    /\ \A r, q \in reads :
          r.source = q.source /\ r.product = q.product /\ r.gen = q.gen => r = q

\* A source that is enabled is requested.
Kept == \A s \in Sources : state[s].enabled => state[s].requested

\* The activation that counts knows whether its source is enabled, the source is
\* loading, and the providers accept its generation.
Current ==
    \A o \in operations :
        /\ o.at # "load" => o.data # None
        /\ IsCurrent(o) =>
              /\ state[o.source].loading
              /\ o.was = state[o.source].enabled
              /\ ~provider[o.source].on => provider[o.source].gen < o.gen

Core == Ordered /\ Single /\ DisplayAgrees /\ Kept /\ Current

\* Nothing is newer than the backend.  What an activation or a read will put on
\* the map is not older than what is there; no read that counts is under way
\* while its source loads.
Newest ==
    /\ \A s \in Sources : shown[s] # None => \A p \in Products : shown[s][p] <= version
    /\ \A o \in operations : o.data # None => \A p \in Products : o.data[p] <= version
    /\ \A r \in reads : r.data <= version
    /\ \A o \in operations : IsCurrent(o) =>
          /\ \A r \in reads : r.source = o.source => r.gen # context[o.source].gen
          /\ o.at # "load" /\ shown[o.source] # None =>
                \A p \in Products : shown[o.source][p] <= o.data[p]
    /\ \A r \in reads : r.at = "answered" /\ Owns(r) /\ shown[r.source] # None =>
          shown[r.source][r.product] <= r.data

\* Before initialize nothing is under way.
Begun == page = "new" => operations = {} /\ running = {} /\ Requested = {}

\* The user's activations are of sources that are off; a refresh is of sources
\* that are on.
Kinds ==
    \A o \in operations :
        /\ o.persist <=> o.caller = "user"
        /\ o.caller = "user" => ~o.was /\ newer
        /\ o.caller = "refresh" => o.was

Wanted == Requested \subseteq intent

\* Where sources load and nothing is chosen during a reset: what is requested is
\* what was chosen, a reset stands for the choice while it runs, and when the
\* storage has another one, something under way is going to write it.
Chosen ==
    events = {} /\ page = "open" =>
        /\ Requested = intent
        /\ running \cap Resets # {} =>
              /\ intent = Defaults
              /\ \A o \in operations : o.persist => ~IsCurrent(o)
        /\ ~newer /\ restored # None => restored = intent
        /\ \/ stored = intent
           \/ running \cap Resets # {}
           \/ \E o \in operations : o.persist /\ IsCurrent(o)
           \/ "startup" \in running /\ ~newer /\ restored = intent

Choices == Begun /\ Kinds /\ Wanted /\ Chosen

IInv == TypeOK /\ Core /\ Newest /\ Choices

-----------------------------------------------------------------------------
(* Types. *)

Context == [gen : Nat, live : BOOLEAN]

Provider == [on : BOOLEAN, gen : Nat]

TypedSources ==
    /\ version \in 0 .. MaxVersion /\ events \in Scenarios
    /\ state \in [Sources -> State]
    /\ context \in [Sources -> Context]
    /\ operations \subseteq Operation
    /\ reads \subseteq Read
    /\ shown \in [Sources -> Contents \cup {None}]
    /\ provider \in [Sources -> Provider]

TypedChoices ==
    /\ running \subseteq Callers
    /\ page \in {"new", "open"} /\ newer \in BOOLEAN
    /\ restored \in (SUBSET Sources) \cup {None}
    /\ stored \in (SUBSET Sources) \cup {None}
    /\ intent \subseteq Sources

LEMMA TypedParts == TypeOK <=> TypedSources /\ TypedChoices
  BY DEF TypeOK, TypedSources, TypedChoices, State, Context, Operation, Read, Provider

LEMMA TypedPartsNext == TypeOK' <=> TypedSources' /\ TypedChoices'
  BY DEF TypeOK, TypedSources, TypedChoices, State, Context, Operation, Read, Provider

LEMMA NoneApart ==
  /\ None \notin Contents
  /\ \A choice \in SUBSET Sources : choice # None
  BY SourcesAssumption DEF Contents

-----------------------------------------------------------------------------
(* Steps that begin activations and switch sources off. *)

\* The activations in `new` begin.  A source is left alone, or it gets a larger
\* generation and either keeps what is shown or is off.
Turns(new) ==
    /\ new \subseteq Operation
    /\ \A n \in new :
          /\ n.at = "load" /\ n.data = None
          /\ n.gen = state'[n.source].gen /\ n.gen > state[n.source].gen
          /\ n.was = state'[n.source].enabled
          /\ state'[n.source].requested /\ state'[n.source].loading
    /\ \A n, m \in new : n.source = m.source => n = m
    /\ operations' = operations \cup new
    /\ state' \in [Sources -> State] /\ context' \in [Sources -> Context]
    /\ shown' \in [Sources -> Contents \cup {None}] /\ provider' \in [Sources -> Provider]
    /\ \A s \in Sources :
          \/ /\ state'[s] = state[s] /\ context'[s] = context[s]
             /\ shown'[s] = shown[s] /\ provider'[s] = provider[s]
          \/ /\ state'[s].gen > state[s].gen /\ context'[s].gen = state'[s].gen
             /\ state'[s].enabled => state'[s].requested
             /\ \/ /\ state'[s].enabled = state[s].enabled
                   /\ shown'[s] = shown[s] /\ provider'[s] = provider[s]
                \/ /\ ~state'[s].enabled /\ shown'[s] = None /\ ~provider'[s].on
                   /\ provider'[s].gen <= state'[s].gen
                   /\ \A n \in new : n.source = s => provider'[s].gen < n.gen
    /\ UNCHANGED <<outside, reads>>

\* The activations that Activation adds.
Begin(S, from, persist, caller) ==
    {[source |-> s, gen |-> from[s].gen + 1, persist |-> persist, was |-> from[s].enabled,
      caller |-> caller, at |-> "load", data |-> None] : s \in S}

LEMMA BeginIs ==
  ASSUME NEW S \in SUBSET Sources, NEW from \in [Sources -> State],
         NEW persist \in BOOLEAN, NEW caller \in Callers
  PROVE  /\ Begin(S, from, persist, caller) \subseteq Operation
         /\ \A n \in Begin(S, from, persist, caller) :
              /\ n.source \in S /\ n.gen = from[n.source].gen + 1
              /\ n.was = from[n.source].enabled /\ n.persist = persist /\ n.caller = caller
              /\ n.at = "load" /\ n.data = None
         /\ \A n, m \in Begin(S, from, persist, caller) : n.source = m.source => n = m
<1> DEFINE begun(s) == [source |-> s, gen |-> from[s].gen + 1, persist |-> persist,
                        was |-> from[s].enabled, caller |-> caller, at |-> "load", data |-> None]
<1>1. \A n \in Begin(S, from, persist, caller) : \E s \in S : n = begun(s)
  BY DEF Begin
<1>2. ASSUME NEW s \in S
      PROVE  /\ begun(s) \in Operation
             /\ begun(s).source = s /\ begun(s).gen = from[s].gen + 1
             /\ begun(s).was = from[s].enabled /\ begun(s).persist = persist
             /\ begun(s).caller = caller /\ begun(s).at = "load" /\ begun(s).data = None
  <2>1. from[s].gen + 1 \in Nat /\ from[s].enabled \in BOOLEAN /\ s \in Sources
    BY DEF State
  <2>2. begun(s) \in Operation
    BY <2>1 DEF Operation
  <2> QED
    BY <2>2
<1> HIDE DEF begun
<1> QED
  BY <1>1, <1>2

\* A source whose operation begins.
LEMMA BegunState ==
  ASSUME NEW r \in State, NEW g \in Nat
  PROVE  LET first == [r EXCEPT !.requested = TRUE, !.loading = TRUE, !.gen = g]
         IN /\ first \in State /\ first.requested /\ first.loading
            /\ first.enabled = r.enabled /\ first.gen = g
<1>1. [r EXCEPT !.requested = TRUE, !.loading = TRUE, !.gen = g] \in State
  BY DEF State
<1> QED
  BY <1>1 DEF State

\* What Activation does to the sources, from states that are the present ones or
\* those of sources that have just been switched off.
LEMMA Activated ==
  ASSUME TypedSources, NEW S \in SUBSET Sources, NEW from \in [Sources -> State],
         NEW persist \in BOOLEAN, NEW caller \in Callers,
         Activation(S, from, persist, caller)
  PROVE  /\ operations' = operations \cup Begin(S, from, persist, caller)
         /\ state' \in [Sources -> State] /\ context' \in [Sources -> Context]
         /\ \A s \in S :
              /\ state'[s].requested /\ state'[s].loading
              /\ state'[s].enabled = from[s].enabled
              /\ state'[s].gen = from[s].gen + 1 /\ context'[s].gen = from[s].gen + 1
         /\ \A s \in Sources \ S :
              /\ state'[s] = from[s]
              /\ from[s] = state[s] => context'[s] = context[s]
              /\ from[s] # state[s] => context'[s].gen = from[s].gen
<1> DEFINE first(s) == [from[s] EXCEPT !.requested = TRUE, !.loading = TRUE, !.gen = from[s].gen + 1]
<1>1. /\ state' = [s \in Sources |-> IF s \in S THEN first(s) ELSE from[s]]
      /\ context' = [s \in Sources |->
            IF s \in S THEN [gen |-> from[s].gen + 1, live |-> TRUE]
            ELSE IF from[s] = state[s] THEN context[s]
            ELSE [gen |-> from[s].gen, live |-> FALSE]]
      /\ operations' = operations \cup Begin(S, from, persist, caller)
  BY DEF Activation, Begin
<1>2. ASSUME NEW s \in Sources
      PROVE  /\ first(s) \in State /\ first(s).requested /\ first(s).loading
             /\ first(s).enabled = from[s].enabled /\ first(s).gen = from[s].gen + 1
  <2>1. from[s] \in State /\ from[s].gen + 1 \in Nat
    BY DEF State
  <2> QED
    BY <2>1, BegunState
<1> HIDE DEF first
<1>3. state' \in [Sources -> State]
  BY <1>1, <1>2
<1>4. \A s \in Sources : from[s].gen \in Nat
  BY DEF State
<1>5. context' \in [Sources -> Context]
  <2>1. \A s \in Sources : context[s] \in Context
    BY DEF TypedSources
  <2> QED
    BY <1>1, <1>4, <2>1 DEF Context
<1>6. ASSUME NEW s \in S
      PROVE  /\ state'[s].requested /\ state'[s].loading
             /\ state'[s].enabled = from[s].enabled
             /\ state'[s].gen = from[s].gen + 1 /\ context'[s].gen = from[s].gen + 1
  BY <1>1, <1>2
<1>7. ASSUME NEW s \in Sources \ S
      PROVE  /\ state'[s] = from[s]
             /\ from[s] = state[s] => context'[s] = context[s]
             /\ from[s] # state[s] => context'[s].gen = from[s].gen
  BY <1>1
<1> QED
  BY <1>1, <1>3, <1>5, <1>6, <1>7

LEMMA GenIs ==
  ASSUME TypedSources, NEW s \in Sources
  PROVE  /\ state[s] \in State /\ state[s].gen \in Nat
         /\ provider[s] \in Provider /\ provider[s].gen \in Nat /\ provider[s].on \in BOOLEAN
         /\ context[s] \in Context /\ context[s].gen \in Nat
  BY DEF TypedSources, State, Provider, Context

\* Activations from the present states.
LEMMA ActivationTurns ==
  ASSUME TypedSources, Core, NEW S \in SUBSET Sources, NEW persist \in BOOLEAN,
         NEW caller \in Callers, Activation(S, state, persist, caller),
         UNCHANGED <<outside, reads, displayVars>>
  PROVE  Turns(Begin(S, state, persist, caller))
<1> DEFINE new == Begin(S, state, persist, caller)
<1>1. state \in [Sources -> State] /\ \A s \in Sources : state[s].gen \in Nat
  BY GenIs DEF TypedSources
<1>2. /\ new \subseteq Operation
      /\ \A n \in new :
           /\ n.source \in S /\ n.gen = state[n.source].gen + 1
           /\ n.was = state[n.source].enabled /\ n.at = "load" /\ n.data = None
      /\ \A n, m \in new : n.source = m.source => n = m
  BY <1>1, BeginIs
<1>3. /\ operations' = operations \cup new
      /\ state' \in [Sources -> State] /\ context' \in [Sources -> Context]
      /\ \A s \in S :
           /\ state'[s].requested /\ state'[s].loading
           /\ state'[s].enabled = state[s].enabled
           /\ state'[s].gen = state[s].gen + 1 /\ context'[s].gen = state[s].gen + 1
      /\ \A s \in Sources \ S : state'[s] = state[s] /\ context'[s] = context[s]
  <2>1. /\ operations' = operations \cup Begin(S, state, persist, caller)
        /\ state' \in [Sources -> State] /\ context' \in [Sources -> Context]
        /\ \A s \in S :
             /\ state'[s].requested /\ state'[s].loading
             /\ state'[s].enabled = state[s].enabled
             /\ state'[s].gen = state[s].gen + 1 /\ context'[s].gen = state[s].gen + 1
        /\ \A s \in Sources \ S :
             /\ state'[s] = state[s]
             /\ state[s] = state[s] => context'[s] = context[s]
             /\ state[s] # state[s] => context'[s].gen = state[s].gen
    BY <1>1, Activated
  <2> QED
    BY <2>1
<1>4. shown' = shown /\ provider' = provider
  BY DEF displayVars
<1>5. shown' \in [Sources -> Contents \cup {None}] /\ provider' \in [Sources -> Provider]
  BY <1>4 DEF TypedSources
<1> HIDE DEF new
<1>6. \A n \in new :
          /\ n.at = "load" /\ n.data = None
          /\ n.gen = state'[n.source].gen /\ n.gen > state[n.source].gen
          /\ n.was = state'[n.source].enabled
          /\ state'[n.source].requested /\ state'[n.source].loading
  BY <1>1, <1>2, <1>3
<1>7. ASSUME NEW s \in Sources
      PROVE  \/ /\ state'[s] = state[s] /\ context'[s] = context[s]
                /\ shown'[s] = shown[s] /\ provider'[s] = provider[s]
             \/ /\ state'[s].gen > state[s].gen /\ context'[s].gen = state'[s].gen
                /\ state'[s].enabled => state'[s].requested
                /\ state'[s].enabled = state[s].enabled
                /\ shown'[s] = shown[s] /\ provider'[s] = provider[s]
  BY <1>1, <1>3, <1>4
<1>8. Turns(new)
  BY <1>2, <1>3, <1>5, <1>6, <1>7 DEF Turns
<1> QED
  BY <1>8 DEF new

LEMMA SelectionIs == ASSUME TypedChoices PROVE StartupSelection \in SUBSET Sources
<1>1. Fallback \in Sources
  <2>1. \E s \in (IF Defaults = {} THEN Sources ELSE Defaults) : TRUE
    BY SourcesAssumption
  <2> QED
    BY <2>1, SourcesAssumption DEF Fallback
<1> QED
  BY <1>1, SourcesAssumption DEF StartupSelection, TypedChoices

LEMMA OffIs ==
  ASSUME TypedSources, NEW s \in Sources
  PROVE  /\ Off(s) \in State /\ Off(s).gen = state[s].gen + 1 /\ Off(s) # state[s]
         /\ ~Off(s).requested /\ ~Off(s).enabled
<1>1. state[s].gen \in Nat
  BY GenIs
<1> QED
  BY <1>1 DEF Off, State

\* A provider that a source that is switched off leaves.
LEMMA UnpublishIs ==
  ASSUME TypedSources, Ordered, NEW s \in Sources
  PROVE  LET left == Unpublish(provider[s], state[s].gen + 1)
         IN left \in Provider /\ ~left.on /\ left.gen = state[s].gen + 1
<1>1. provider[s].gen <= state[s].gen /\ provider[s].gen \in Nat /\ state[s].gen \in Nat
  BY GenIs DEF Ordered
<1> QED
  BY <1>1 DEF Unpublish, Provider

LEMMA DisableTurns ==
  ASSUME TypedSources, Core, NEW s \in Sources, Disable(s)
  PROVE  Turns({}) /\ state' = [state EXCEPT ![s] = Off(s)]
<1>1. /\ state' = [state EXCEPT ![s] = Off(s)]
      /\ context' = [context EXCEPT ![s] = [gen |-> state[s].gen + 1, live |-> FALSE]]
      /\ shown' = [shown EXCEPT ![s] = None]
      /\ provider' = [provider EXCEPT ![s] = Unpublish(provider[s], state[s].gen + 1)]
      /\ UNCHANGED <<outside, operations, reads>>
  BY DEF Disable
<1>2. /\ state \in [Sources -> State] /\ context \in [Sources -> Context]
      /\ shown \in [Sources -> Contents \cup {None}] /\ provider \in [Sources -> Provider]
  BY DEF TypedSources
<1> DEFINE left    == Unpublish(provider[s], state[s].gen + 1)
           aborted == [gen |-> state[s].gen + 1, live |-> FALSE]
<1>3. left \in Provider /\ ~left.on /\ left.gen = state[s].gen + 1
  BY UnpublishIs DEF Core
<1>4. aborted \in Context /\ aborted.gen = state[s].gen + 1 /\ state[s].gen \in Nat
  BY GenIs DEF Context
<1>5. /\ Off(s) \in State /\ Off(s).gen = state[s].gen + 1
      /\ ~Off(s).requested /\ ~Off(s).enabled
  BY OffIs
<1>6. /\ provider' = [provider EXCEPT ![s] = left] /\ context' = [context EXCEPT ![s] = aborted]
  BY <1>1
<1> HIDE DEF left, aborted
<1>7. /\ state' \in [Sources -> State] /\ context' \in [Sources -> Context]
      /\ shown' \in [Sources -> Contents \cup {None}] /\ provider' \in [Sources -> Provider]
  BY <1>1, <1>2, <1>3, <1>4, <1>5, <1>6
<1>8. /\ state'[s].gen > state[s].gen /\ context'[s].gen = state'[s].gen
      /\ ~state'[s].enabled /\ shown'[s] = None /\ ~provider'[s].on
      /\ provider'[s].gen <= state'[s].gen
  BY <1>1, <1>2, <1>3, <1>4, <1>5, <1>6
<1>9. \A t \in Sources \ {s} : /\ state'[t] = state[t] /\ context'[t] = context[t]
                               /\ shown'[t] = shown[t] /\ provider'[t] = provider[t]
  BY <1>1, <1>2, <1>6
<1>10. UNCHANGED <<outside, operations, reads>>
  BY <1>1
<1> QED
  BY <1>1, <1>7, <1>8, <1>9, <1>10 DEF Turns

LEMMA ResetTurns ==
  ASSUME TypedSources, Core, NEW r \in Resets, Reset(r)
  PROVE  LET from == [s \in Sources |-> Off(s)]
         IN /\ Turns(Begin(Defaults, from, FALSE, r))
            /\ from \in [Sources -> State]
            /\ \A s \in Sources : /\ state'[s].gen > state[s].gen
                                  /\ state'[s].requested <=> s \in Defaults
<1> DEFINE from == [s \in Sources |-> Off(s)]
           new  == Begin(Defaults, from, FALSE, r)
<1>1. /\ Activation(Defaults, from, FALSE, r)
      /\ shown' = [s \in Sources |-> None]
      /\ provider' = [s \in Sources |-> Unpublish(provider[s], state[s].gen + 1)]
      /\ UNCHANGED <<outside, reads>>
  BY DEF Reset
<1>2. /\ from \in [Sources -> State]
      /\ \A s \in Sources : /\ from[s].gen = state[s].gen + 1 /\ from[s] # state[s]
                            /\ ~from[s].requested /\ ~from[s].enabled /\ state[s].gen \in Nat
  BY OffIs, GenIs
<1>3. Defaults \in SUBSET Sources /\ r \in Callers
  BY SourcesAssumption DEF Callers
<1>4. /\ shown' \in [Sources -> Contents \cup {None}] /\ provider' \in [Sources -> Provider]
      /\ \A s \in Sources : shown'[s] = None /\ ~provider'[s].on /\ provider'[s].gen = state[s].gen + 1
  BY <1>1, UnpublishIs DEF Core
<1> HIDE DEF from
<1>5. /\ new \subseteq Operation
      /\ \A n \in new :
           /\ n.source \in Defaults /\ n.gen = from[n.source].gen + 1
           /\ n.was = from[n.source].enabled /\ n.at = "load" /\ n.data = None
      /\ \A n, m \in new : n.source = m.source => n = m
  <2>1. /\ Begin(Defaults, from, FALSE, r) \subseteq Operation
        /\ \A n \in Begin(Defaults, from, FALSE, r) :
             /\ n.source \in Defaults /\ n.gen = from[n.source].gen + 1
             /\ n.was = from[n.source].enabled /\ n.persist = FALSE /\ n.caller = r
             /\ n.at = "load" /\ n.data = None
        /\ \A n, m \in Begin(Defaults, from, FALSE, r) : n.source = m.source => n = m
    BY <1>2, <1>3, BeginIs
  <2> QED
    BY <2>1
<1>6. /\ operations' = operations \cup new
      /\ state' \in [Sources -> State] /\ context' \in [Sources -> Context]
      /\ \A s \in Defaults :
           /\ state'[s].requested /\ state'[s].loading
           /\ state'[s].enabled = from[s].enabled
           /\ state'[s].gen = from[s].gen + 1 /\ context'[s].gen = from[s].gen + 1
      /\ \A s \in Sources \ Defaults :
           /\ state'[s] = from[s]
           /\ from[s] = state[s] => context'[s] = context[s]
           /\ from[s] # state[s] => context'[s].gen = from[s].gen
  BY <1>1, <1>2, <1>3, Activated
<1> HIDE DEF new
<1>7. \A n \in new :
          /\ n.at = "load" /\ n.data = None
          /\ n.gen = state'[n.source].gen /\ n.gen > state[n.source].gen
          /\ n.was = state'[n.source].enabled
          /\ state'[n.source].requested /\ state'[n.source].loading
  BY <1>2, <1>3, <1>5, <1>6
<1>8. ASSUME NEW s \in Sources
      PROVE  /\ state'[s].gen > state[s].gen /\ context'[s].gen = state'[s].gen
             /\ ~state'[s].enabled /\ shown'[s] = None /\ ~provider'[s].on
             /\ provider'[s].gen <= state'[s].gen
             /\ \A n \in new : n.source = s => provider'[s].gen < n.gen
  <2>1. CASE s \in Defaults
    BY <1>2, <1>4, <1>5, <1>6, <2>1
  <2>2. CASE s \notin Defaults
    BY <1>2, <1>4, <1>5, <1>6, <2>2
  <2> QED
    BY <2>1, <2>2
<1>9. Turns(new)
  BY <1>1, <1>4, <1>5, <1>6, <1>7, <1>8 DEF Turns
<1>10. \A s \in Sources : state'[s].requested <=> s \in Defaults
  BY <1>2, <1>6
<1> QED
  BY <1>2, <1>8, <1>9, <1>10 DEF new, from

-----------------------------------------------------------------------------
(* Generations and what is displayed. *)

LEMMA OperationIs ==
  ASSUME TypedSources, NEW o \in operations
  PROVE  /\ o \in Operation /\ o.source \in Sources /\ o.gen \in Nat
         /\ o.data \in Contents \cup {None} /\ o.was \in BOOLEAN /\ o.persist \in BOOLEAN
  BY DEF TypedSources, Operation

LEMMA ReadIs ==
  ASSUME TypedSources, NEW r \in reads
  PROVE  /\ r \in Read /\ r.source \in Sources /\ r.product \in Products
         /\ r.gen \in Nat /\ r.data \in 0 .. MaxVersion
  BY DEF TypedSources, Read

LEMMA TurnsSources == ASSUME TypedSources, NEW new, Turns(new) PROVE TypedSources'
  BY DEF Turns, TypedSources, outside

\* An activation that counts after such a step has just begun, or its source is
\* left alone and it counted before.
LEMMA TurnsCurrent ==
  ASSUME TypedSources, Core, NEW new, Turns(new), NEW o \in operations', IsCurrent(o)'
  PROVE  \/ o \in new
         \/ /\ o \in operations /\ IsCurrent(o)
            /\ state'[o.source] = state[o.source] /\ context'[o.source] = context[o.source]
            /\ shown'[o.source] = shown[o.source] /\ provider'[o.source] = provider[o.source]
<1> SUFFICES ASSUME o \in operations, o \notin new
             PROVE  /\ IsCurrent(o)
                    /\ state'[o.source] = state[o.source] /\ context'[o.source] = context[o.source]
                    /\ shown'[o.source] = shown[o.source] /\ provider'[o.source] = provider[o.source]
  BY DEF Turns
<1>1. o.source \in Sources /\ o.gen \in Nat /\ state[o.source].gen \in Nat /\ o.gen <= state[o.source].gen
  BY OperationIs, GenIs DEF Core, Ordered
<1>2. state'[o.source].gen = o.gen /\ state'[o.source].requested
  BY DEF IsCurrent
<1>3. ~(state'[o.source].gen > state[o.source].gen)
  BY <1>1, <1>2
<1>4. /\ state'[o.source] = state[o.source] /\ context'[o.source] = context[o.source]
      /\ shown'[o.source] = shown[o.source] /\ provider'[o.source] = provider[o.source]
  BY <1>1, <1>3 DEF Turns
<1> QED
  BY <1>2, <1>4 DEF IsCurrent

LEMMA TurnsCore == ASSUME TypedSources, Core, NEW new, Turns(new) PROVE Core'
<1>1. TypedSources'
  BY TurnsSources
<1>2. \A s \in Sources :
        /\ state[s].gen \in Nat /\ provider[s].gen \in Nat /\ context[s].gen \in Nat
        /\ state'[s].gen \in Nat /\ provider'[s].gen \in Nat /\ context'[s].gen \in Nat
        /\ provider[s].gen <= state[s].gen /\ context[s].gen <= state[s].gen
  <2>1. \A s \in Sources : state'[s].gen \in Nat /\ provider'[s].gen \in Nat /\ context'[s].gen \in Nat
    BY <1>1 DEF TypedSources, State, Provider, Context
  <2> QED
    BY <2>1, GenIs DEF Core, Ordered
<1>3. \A s \in Sources :
        \/ /\ state'[s] = state[s] /\ context'[s] = context[s]
           /\ shown'[s] = shown[s] /\ provider'[s] = provider[s]
        \/ /\ state'[s].gen > state[s].gen /\ context'[s].gen = state'[s].gen
           /\ state'[s].enabled => state'[s].requested
           /\ \/ /\ state'[s].enabled = state[s].enabled
                 /\ shown'[s] = shown[s] /\ provider'[s] = provider[s]
              \/ /\ ~state'[s].enabled /\ shown'[s] = None /\ ~provider'[s].on
                 /\ provider'[s].gen <= state'[s].gen
                 /\ \A n \in new : n.source = s => provider'[s].gen < n.gen
  BY DEF Turns
<1>4. \A n \in new :
        /\ n.source \in Sources /\ n.gen \in Nat /\ n.at = "load"
        /\ n.gen = state'[n.source].gen /\ n.gen > state[n.source].gen
        /\ n.was = state'[n.source].enabled /\ state'[n.source].loading
  BY DEF Turns, Operation
<1>5. \A o \in operations : o.source \in Sources /\ o.gen \in Nat /\ o.gen <= state[o.source].gen
  BY OperationIs DEF Core, Ordered
<1>6. \A r \in reads : r.source \in Sources /\ r.gen \in Nat /\ r.gen <= context[r.source].gen
  BY ReadIs DEF Core, Ordered
<1>7. operations' = operations \cup new /\ reads' = reads
  BY DEF Turns
<1>8. \A s \in Sources :
        /\ provider'[s].gen <= state'[s].gen /\ context'[s].gen <= state'[s].gen
        /\ state[s].gen <= state'[s].gen /\ context[s].gen <= context'[s].gen
  BY <1>2, <1>3
<1>9. Ordered'
  <2>1. \A o \in operations' : o.gen <= state'[o.source].gen
    BY <1>2, <1>4, <1>5, <1>7, <1>8
  <2>2. \A r \in reads' : r.gen <= context'[r.source].gen
    BY <1>2, <1>6, <1>7, <1>8
  <2> QED
    BY <1>8, <2>1, <2>2 DEF Ordered
<1>10. Single'
  <2>1. \A o \in operations : \A n \in new : ~(o.source = n.source /\ o.gen = n.gen)
    BY <1>2, <1>4, <1>5
  <2>2. \A n, m \in new : n.source = m.source => n = m
    BY DEF Turns
  <2> QED
    BY <1>7, <2>1, <2>2 DEF Core, Single
<1>11. DisplayAgrees' /\ Kept'
  BY <1>3 DEF Core, DisplayAgrees, Kept
<1>12. Current'
  <2> SUFFICES ASSUME NEW o \in operations'
               PROVE  /\ o.at # "load" => o.data # None
                      /\ IsCurrent(o)' =>
                            /\ state'[o.source].loading
                            /\ o.was = state'[o.source].enabled
                            /\ ~provider'[o.source].on => provider'[o.source].gen < o.gen
    BY DEF Current
  <2>1. o.at # "load" => o.data # None
    BY <1>4, <1>7 DEF Core, Current
  <2>2. CASE o \in new
    <3>1. state'[o.source] # state[o.source]
      BY <1>2, <1>4, <2>2
    <3>2. ~provider'[o.source].on => provider'[o.source].gen < o.gen
      BY <1>2, <1>3, <1>4, <2>2, <3>1
    <3> QED
      BY <1>4, <2>1, <2>2, <3>2
  <2>3. CASE o \notin new /\ IsCurrent(o)'
    BY <2>1, <2>3, TurnsCurrent DEF Core, Current
  <2> QED
    BY <2>1, <2>2, <2>3
<1> QED
  BY <1>9, <1>10, <1>11, <1>12 DEF Core

\* An activation goes on or ends without a change of its source.
Continues(o, next) ==
    /\ next \subseteq Operation
    /\ \A q \in next : /\ q.source = o.source /\ q.gen = o.gen /\ q.was = o.was
                       /\ q.at # "load" => q.data # None
    /\ \A p, q \in next : p = q
    /\ operations' = (operations \ {o}) \cup next
    /\ UNCHANGED <<version, events, state, context, reads, shown, provider>>

LEMMA ContinuesCore ==
  ASSUME TypedSources, Core, NEW o \in operations, NEW next, Continues(o, next)
  PROVE  TypedSources' /\ Core'
<1>1. UNCHANGED <<version, events, state, context, reads, shown, provider>>
  BY DEF Continues
<1>2. TypedSources'
  BY <1>1 DEF TypedSources, Continues
<1>3. Ordered'
  BY <1>1 DEF Core, Ordered, Continues
<1>4. Single'
  BY <1>1 DEF Core, Single, Continues
<1>5. DisplayAgrees' /\ Kept'
  BY <1>1 DEF Core, DisplayAgrees, Kept
<1>6. Current'
  BY <1>1 DEF Core, Current, IsCurrent, Continues
<1> QED
  BY <1>2, <1>3, <1>4, <1>5, <1>6 DEF Core

LEMMA LoadCore == ASSUME TypedSources, Core, NEW o \in operations, Load(o) PROVE TypedSources' /\ Core'
<1> DEFINE content == [p \in Products |-> version]
           q       == [o EXCEPT !.at = "payload", !.data = content]
<1>1. content \in Contents
  BY DEF TypedSources, Contents
<1>2. content # None
  BY <1>1, NoneApart
<1> HIDE DEF content
<1>3. o \in Operation
  BY OperationIs
<1>4. q \in Operation
  BY <1>1, <1>3 DEF Operation
<1>5. q.source = o.source /\ q.gen = o.gen /\ q.was = o.was /\ q.data = content
  BY <1>3 DEF Operation
<1>6. /\ operations' = (operations \ {o}) \cup {q}
      /\ UNCHANGED <<outside, sourceVars, reads, displayVars>>
  BY DEF Load, content
<1> HIDE DEF q
<1> QED
  <2>1. Continues(o, {q})
    BY <1>2, <1>4, <1>5, <1>6 DEF Continues, outside, sourceVars, displayVars
  <2> QED
    BY <2>1, ContinuesCore

LEMMA PrepareCore ==
  ASSUME TypedSources, Core, NEW o \in operations, Prepare(o)
  PROVE  TypedSources' /\ Core'
<1> DEFINE q == [o EXCEPT !.at = "layers"]
<1>1. o \in Operation /\ o.at = "payload" /\ o.data # None
  BY OperationIs DEF Prepare, Core, Current
<1>2. q \in Operation
  BY <1>1 DEF Operation
<1>3. q.source = o.source /\ q.gen = o.gen /\ q.was = o.was /\ q.data = o.data
  BY <1>1 DEF Operation
<1>4. /\ operations' = (operations \ {o}) \cup {q}
      /\ UNCHANGED <<outside, sourceVars, reads, displayVars>>
  BY DEF Prepare
<1> HIDE DEF q
<1> QED
  <2>1. Continues(o, {q})
    BY <1>1, <1>2, <1>3, <1>4 DEF Continues, outside, sourceVars, displayVars
  <2> QED
    BY <2>1, ContinuesCore

LEMMA SupersededCore ==
  ASSUME TypedSources, Core, NEW o \in operations, Superseded(o)
  PROVE  TypedSources' /\ Core'
<1>1. /\ operations' = (operations \ {o}) \cup {}
      /\ UNCHANGED <<outside, sourceVars, reads, displayVars>>
  BY DEF Superseded
<1> QED
  <2>1. Continues(o, {})
    BY <1>1 DEF Continues, outside, sourceVars, displayVars
  <2> QED
    BY <2>1, ContinuesCore

\* The activation that counts ends and leaves its source in the state `next`.
Ends(o, next) ==
    LET s == o.source IN
    /\ IsCurrent(o) /\ operations' = operations \ {o}
    /\ next \in State /\ state' = [state EXCEPT ![s] = next]
    /\ next.gen = state[s].gen
    /\ next.enabled => next.requested
    /\ shown' \in [Sources -> Contents \cup {None}] /\ provider' \in [Sources -> Provider]
    /\ \A t \in Sources \ {s} : shown'[t] = shown[t] /\ provider'[t] = provider[t]
    /\ next.enabled <=> shown'[s] # None
    /\ provider'[s].on <=> shown'[s] # None
    /\ provider'[s].gen <= state[s].gen
    /\ UNCHANGED <<version, events, context, reads>>

\* The activations that still count are those of other sources.
LEMMA EndsCurrent ==
  ASSUME TypedSources, Core, NEW o \in operations, NEW next, Ends(o, next),
         NEW q \in operations', IsCurrent(q)'
  PROVE  /\ q \in operations /\ q.source \in Sources /\ q.source # o.source /\ IsCurrent(q)
         /\ shown'[q.source] = shown[q.source]
<1> DEFINE s == o.source
<1>1. /\ s \in Sources /\ IsCurrent(o) /\ operations' = operations \ {o}
      /\ state' = [state EXCEPT ![s] = next] /\ next.gen = state[s].gen
      /\ \A t \in Sources \ {s} : shown'[t] = shown[t]
  BY OperationIs DEF Ends
<1>2. /\ state'[s] = next /\ \A t \in Sources \ {s} : state'[t] = state[t]
  BY <1>1 DEF TypedSources
<1>3. q \in operations /\ q # o /\ q.source \in Sources
  BY <1>1, OperationIs
<1>4. q.source # s
  BY <1>1, <1>2, <1>3 DEF IsCurrent, Core, Single
<1> QED
  BY <1>1, <1>2, <1>3, <1>4 DEF IsCurrent

LEMMA EndsCore ==
  ASSUME TypedSources, Core, NEW o \in operations, NEW next, Ends(o, next)
  PROVE  TypedSources' /\ Core'
<1> DEFINE s == o.source
<1>0. /\ s \in Sources /\ IsCurrent(o) /\ operations' = operations \ {o}
      /\ next \in State /\ state' = [state EXCEPT ![s] = next]
      /\ next.gen = state[s].gen /\ (next.enabled => next.requested)
      /\ shown' \in [Sources -> Contents \cup {None}] /\ provider' \in [Sources -> Provider]
      /\ \A t \in Sources \ {s} : shown'[t] = shown[t] /\ provider'[t] = provider[t]
      /\ next.enabled <=> shown'[s] # None
      /\ provider'[s].on <=> shown'[s] # None
      /\ provider'[s].gen <= state[s].gen
      /\ UNCHANGED <<version, events, context, reads>>
  BY OperationIs DEF Ends
<1> USE <1>0
<1>1. state' \in [Sources -> State] /\ state'[s] = next /\ \A t \in Sources \ {s} : state'[t] = state[t]
  BY DEF TypedSources
<1>2. \A t \in Sources : state'[t].gen = state[t].gen
  BY <1>1
<1>3. UNCHANGED <<version, events, context, reads>>
  OBVIOUS
<1>4. TypedSources'
  BY <1>1, <1>3 DEF TypedSources
<1>5. \A q \in operations : q.source \in Sources /\ q.gen \in Nat
  BY OperationIs
<1>6. Ordered'
  BY <1>1, <1>2, <1>3, <1>5, ReadIs DEF Core, Ordered
<1>7. Single'
  BY <1>3 DEF Core, Single
<1>8. DisplayAgrees' /\ Kept'
  BY <1>1 DEF Core, DisplayAgrees, Kept
<1>9. \A q \in operations' : IsCurrent(q)' => q \in operations /\ q.source # s /\ IsCurrent(q)
  BY EndsCurrent
<1>10. Current'
  BY <1>1, <1>5, <1>9 DEF Core, Current
<1> QED
  BY <1>4, <1>6, <1>7, <1>8, <1>10 DEF Core

LEMMA CommitCore ==
  ASSUME TypedSources, Core, NEW o \in operations, Commit(o)
  PROVE  /\ TypedSources' /\ Core' /\ \E next : Ends(o, next)
         /\ shown' = [shown EXCEPT ![o.source] = o.data]
         /\ \A t \in Sources : /\ state'[t].gen = state[t].gen
                               /\ state'[t].requested = state[t].requested
<1> DEFINE s    == o.source
           next == [state[s] EXCEPT !.enabled = TRUE, !.loading = FALSE]
           own  == Publish(provider[s], o.gen)
<1>1. /\ s \in Sources /\ o.gen \in Nat /\ o.data \in Contents /\ o.data # None
      /\ IsCurrent(o) /\ state[s].gen = o.gen /\ state[s].requested
  BY OperationIs DEF Commit, Core, Current, IsCurrent
<1>2. /\ operations' = operations \ {o}
      /\ state' = [state EXCEPT ![s] = next]
      /\ shown' = [shown EXCEPT ![s] = o.data]
      /\ provider' = [provider EXCEPT ![s] = own]
      /\ UNCHANGED <<outside, context, reads>>
  BY <1>1 DEF Commit, TypedSources
<1>3. state[s] \in State
  BY <1>1, GenIs
<1>4. next \in State
  BY <1>3 DEF State
<1>5. next.gen = state[s].gen /\ next.enabled = TRUE /\ next.requested = state[s].requested
  BY <1>3 DEF State
<1>6. own \in Provider /\ own.on /\ own.gen = o.gen
  <2>1. /\ provider[s].gen <= o.gen /\ provider[s].gen \in Nat
        /\ ~provider[s].on => provider[s].gen < o.gen
    BY <1>1, GenIs DEF Core, Current, Ordered
  <2> QED
    BY <1>1, <2>1 DEF Publish, Provider
<1>7. shown \in [Sources -> Contents \cup {None}] /\ provider \in [Sources -> Provider] /\ state \in [Sources -> State]
  BY DEF TypedSources
<1> HIDE DEF next, own, s
<1>8. /\ shown' \in [Sources -> Contents \cup {None}] /\ provider' \in [Sources -> Provider]
      /\ \A t \in Sources \ {s} : shown'[t] = shown[t] /\ provider'[t] = provider[t]
      /\ shown'[s] = o.data /\ provider'[s] = own
  BY <1>1, <1>2, <1>6, <1>7
<1>9. TypedSources' /\ Core' /\ \E end : Ends(o, end)
  <2>1. Ends(o, next)
    BY <1>1, <1>2, <1>4, <1>5, <1>6, <1>8 DEF Ends, outside, s
  <2> QED
    BY <2>1, EndsCore
<1>10. \A t \in Sources : /\ state'[t].gen = state[t].gen
                          /\ state'[t].requested = state[t].requested
  BY <1>2, <1>5, <1>7
<1> QED
  BY <1>2, <1>9, <1>10 DEF s

LEMMA FailEnds ==
  ASSUME TypedSources, Core, NEW o \in operations, Fail(o)
  PROVE  /\ Ends(o, [state[o.source] EXCEPT !.requested = o.was, !.enabled = o.was, !.loading = FALSE])
         /\ o.was = state[o.source].enabled
         /\ o.was => shown' = shown
         /\ ~o.was => shown'[o.source] = None
<1> DEFINE s    == o.source
           next == [state[s] EXCEPT !.requested = o.was, !.enabled = o.was, !.loading = FALSE]
           own  == Suspend(provider[s])
<1>1. /\ s \in Sources /\ o.gen \in Nat /\ IsCurrent(o) /\ state[s].gen = o.gen
      /\ o.was = state[s].enabled /\ o.was \in BOOLEAN
      /\ ~provider[s].on => provider[s].gen < o.gen
  BY OperationIs DEF Fail, Core, Current, IsCurrent
<1>2. /\ operations' = operations \ {o}
      /\ state' = [state EXCEPT ![s].requested = o.was, ![s].enabled = o.was, ![s].loading = FALSE]
      /\ IF o.was THEN shown' = shown /\ provider' = provider
         ELSE shown' = [shown EXCEPT ![s] = None] /\ provider' = [provider EXCEPT ![s] = own]
      /\ UNCHANGED <<version, events, context, reads>>
  BY DEF Fail, displayVars, outside
<1>3. state' = [state EXCEPT ![s] = next]
  BY <1>1, <1>2 DEF TypedSources
<1>4. state[s] \in State
  BY <1>1, GenIs
<1>5. next \in State
  BY <1>1, <1>4 DEF State
<1>6. next.gen = state[s].gen /\ next.enabled = o.was /\ next.requested = o.was
  BY <1>4 DEF State
<1>7. /\ provider[s].gen \in Nat /\ provider[s].gen <= state[s].gen
      /\ own \in Provider /\ ~own.on /\ own.gen = provider[s].gen + 1
  BY <1>1, GenIs DEF Suspend, Provider, Core, Ordered
<1>8. shown \in [Sources -> Contents \cup {None}] /\ provider \in [Sources -> Provider]
  BY DEF TypedSources
<1> HIDE DEF s, next, own
<1>9. CASE o.was
  <2>1. (next.enabled <=> shown'[s] # None) /\ (provider'[s].on <=> shown'[s] # None)
    BY <1>1, <1>2, <1>6, <1>9 DEF Core, DisplayAgrees
  <2>2. Ends(o, next)
    BY <1>1, <1>2, <1>3, <1>5, <1>6, <1>7, <1>8, <1>9, <2>1 DEF Ends, s
  <2> QED
    BY <1>1, <1>2, <1>9, <2>2 DEF s, next
<1>10. CASE ~o.was
  <2>1. ~provider[s].on
    BY <1>1, <1>10 DEF Core, DisplayAgrees
  <2>2. own.gen <= state[s].gen
    BY <1>1, <1>7, <2>1
  <2>3. /\ shown' \in [Sources -> Contents \cup {None}] /\ provider' \in [Sources -> Provider]
        /\ \A t \in Sources \ {s} : shown'[t] = shown[t] /\ provider'[t] = provider[t]
        /\ shown'[s] = None /\ provider'[s] = own
    BY <1>1, <1>2, <1>7, <1>8, <1>10
  <2>4. Ends(o, next)
    BY <1>1, <1>2, <1>3, <1>5, <1>6, <1>7, <1>10, <2>2, <2>3 DEF Ends, s
  <2> QED
    BY <1>1, <1>10, <2>3, <2>4 DEF s, next
<1> QED
  BY <1>1, <1>9, <1>10 DEF s

\* A step of the reads alone.
LEMMA CoreReads ==
  ASSUME TypedSources, Core, reads' \subseteq Read,
         \A r \in reads' : r.gen <= context[r.source].gen,
         \A r, q \in reads' :
            r.source = q.source /\ r.product = q.product /\ r.gen = q.gen => r = q,
         UNCHANGED <<version, events, state, context, operations, shown, provider>>
  PROVE  TypedSources' /\ Core'
<1>1. TypedSources'
  BY DEF TypedSources
<1>2. Ordered' /\ Single'
  BY DEF Core, Ordered, Single
<1>3. DisplayAgrees' /\ Kept' /\ Current'
  BY DEF Core, DisplayAgrees, Kept, Current, IsCurrent
<1> QED
  BY <1>1, <1>2, <1>3 DEF Core

LEMMA RequestCore ==
  ASSUME TypedSources, Core, NEW s \in Sources, NEW p \in Products, RequestStatus(s, p)
  PROVE  TypedSources' /\ Core'
<1> DEFINE asked == [source |-> s, product |-> p, gen |-> context[s].gen, at |-> "queued", data |-> 0]
<1>1. asked \in Read /\ context[s].gen \in Nat
  BY GenIs, SourcesAssumption DEF Read
<1>2. asked.source = s /\ asked.product = p /\ asked.gen = context[s].gen
  OBVIOUS
<1>3. /\ reads' = reads \cup {asked}
      /\ \A r \in reads : ~(r.source = s /\ r.product = p /\ r.gen = context[s].gen)
      /\ UNCHANGED <<version, events, state, context, operations, shown, provider>>
  BY DEF RequestStatus, InFlight, outside, sourceVars, displayVars
<1> HIDE DEF asked
<1>4. reads' \subseteq Read
  BY <1>1, <1>3 DEF TypedSources
<1>5. \A r \in reads' : r.gen <= context[r.source].gen
  BY <1>1, <1>2, <1>3 DEF Core, Ordered
<1>6. \A r, q \in reads' : r.source = q.source /\ r.product = q.product /\ r.gen = q.gen => r = q
  BY <1>2, <1>3 DEF Core, Single
<1> QED
  BY <1>3, <1>4, <1>5, <1>6, CoreReads

\* A read goes on or is forgotten.
LEMMA ReadGoesOn ==
  ASSUME TypedSources, Core, NEW r \in reads, SendStatus(r) \/ AnswerStatus(r) \/ DropStatus(r)
  PROVE  /\ TypedSources' /\ Core'
         /\ UNCHANGED <<version, events, state, context, operations, shown, provider>>
         /\ \A q \in reads' :
              \/ q \in reads
              \/ /\ q.source = r.source /\ q.gen = r.gen /\ q.at = "sent" /\ q.data = r.data
              \/ /\ q.source = r.source /\ q.gen = r.gen /\ q.at = "answered" /\ q.data = version
                 /\ q.product = r.product
<1> DEFINE sent     == [r EXCEPT !.at = "sent"]
           answered == [r EXCEPT !.at = "answered", !.data = version]
<1>1. r \in Read /\ version \in 0 .. MaxVersion
  BY ReadIs DEF TypedSources
<1>2. sent \in Read /\ answered \in Read
  BY <1>1 DEF Read
<1>3. /\ sent.source = r.source /\ sent.product = r.product /\ sent.gen = r.gen
      /\ sent.at = "sent" /\ sent.data = r.data
      /\ answered.source = r.source /\ answered.product = r.product /\ answered.gen = r.gen
      /\ answered.at = "answered" /\ answered.data = version
  BY <1>1 DEF Read
<1>4. /\ \/ reads' = (reads \ {r}) \cup {sent}
         \/ reads' = (reads \ {r}) \cup {answered}
         \/ reads' = reads \ {r}
      /\ UNCHANGED <<version, events, state, context, operations, shown, provider>>
  BY DEF SendStatus, AnswerStatus, DropStatus, outside, sourceVars, displayVars
<1> HIDE DEF sent, answered
<1>5. reads' \subseteq Read
  BY <1>2, <1>4 DEF TypedSources
<1>6. \A q \in reads' : q.gen <= context[q.source].gen
  BY <1>3, <1>4 DEF Core, Ordered
<1>7. \A p, q \in reads' : p.source = q.source /\ p.product = q.product /\ p.gen = q.gen => p = q
  BY <1>3, <1>4 DEF Core, Single
<1>8. TypedSources' /\ Core'
  BY <1>4, <1>5, <1>6, <1>7, CoreReads
<1>9. \A q \in reads' : q \in reads \/ q = sent \/ q = answered
  BY <1>4
<1> QED
  BY <1>3, <1>4, <1>8, <1>9

\* A status is published: nothing changes but the reads, or the source gets the
\* next generation and the Product its status.
LEMMA PublishIs ==
  ASSUME TypedSources, Core, NEW r \in reads, PublishStatus(r)
  PROVE  /\ UNCHANGED <<version, events, context, operations>>
         /\ reads' = reads \ {r} /\ r.at = "answered" /\ Owns(r)
         /\ state[r.source].enabled /\ ~state[r.source].loading
         /\ shown[r.source] \in Contents /\ shown[r.source] # None
         /\ \/ UNCHANGED <<state, shown, provider>>
            \/ /\ state' = [state EXCEPT ![r.source].gen = @ + 1]
               /\ shown' = [shown EXCEPT ![r.source] = [shown[r.source] EXCEPT ![r.product] = r.data]]
               /\ provider' = [provider EXCEPT ![r.source] =
                                  [on |-> TRUE, gen |-> state[r.source].gen + 1]]
<1>1. r.source \in Sources
  BY ReadIs
<1>2. /\ UNCHANGED <<version, events, context, operations>>
      /\ reads' = reads \ {r} /\ r.at = "answered" /\ Owns(r)
      /\ state[r.source].enabled /\ ~state[r.source].loading
      /\ \/ UNCHANGED <<state, shown, provider>>
         \/ /\ state' = [state EXCEPT ![r.source].gen = @ + 1]
            /\ shown' = [shown EXCEPT ![r.source][r.product] = r.data]
            /\ provider' = [provider EXCEPT ![r.source] = Publish(@, state[r.source].gen + 1)]
  BY DEF PublishStatus, Steady, outside, displayVars
<1>3. shown[r.source] \in Contents /\ shown[r.source] # None
  BY <1>1, <1>2 DEF Core, DisplayAgrees, TypedSources
<1>4. Publish(provider[r.source], state[r.source].gen + 1) = [on |-> TRUE, gen |-> state[r.source].gen + 1]
  <2>1. /\ provider[r.source].gen <= state[r.source].gen
        /\ provider[r.source].gen \in Nat /\ state[r.source].gen \in Nat
    BY <1>1, GenIs DEF Core, Ordered
  <2> QED
    BY <2>1 DEF Publish
<1>5. shown' = [shown EXCEPT ![r.source][r.product] = r.data] =>
        shown' = [shown EXCEPT ![r.source] = [shown[r.source] EXCEPT ![r.product] = r.data]]
  BY <1>1 DEF TypedSources
<1>6. provider' = [provider EXCEPT ![r.source] = Publish(@, state[r.source].gen + 1)] =>
        provider' = [provider EXCEPT ![r.source] = [on |-> TRUE, gen |-> state[r.source].gen + 1]]
  BY <1>1, <1>4 DEF TypedSources
<1> QED
  BY <1>2, <1>3, <1>5, <1>6

LEMMA PublishCore ==
  ASSUME TypedSources, Core, NEW r \in reads, PublishStatus(r)
  PROVE  TypedSources' /\ Core'
<1> DEFINE s       == r.source
           content == [shown[s] EXCEPT ![r.product] = r.data]
           own     == [on |-> TRUE, gen |-> state[s].gen + 1]
<1>1. /\ UNCHANGED <<version, events, context, operations>>
      /\ reads' = reads \ {r}
      /\ state[s].enabled
      /\ shown[s] \in Contents /\ shown[s] # None
      /\ \/ UNCHANGED <<state, shown, provider>>
         \/ /\ state' = [state EXCEPT ![s].gen = @ + 1]
            /\ shown' = [shown EXCEPT ![s] = content]
            /\ provider' = [provider EXCEPT ![s] = own]
  BY PublishIs
<1>2. /\ s \in Sources /\ r.product \in Products /\ r.data \in 0 .. MaxVersion
      /\ state[s] \in State /\ state[s].gen \in Nat
  BY ReadIs, GenIs
<1>3. content \in Contents /\ content # None /\ own \in Provider /\ own.on /\ own.gen = state[s].gen + 1
  BY <1>1, <1>2, NoneApart DEF Contents, Provider
<1> HIDE DEF content, own, s
<1>4. \A q \in reads' : q.gen <= context[q.source].gen
  BY <1>1 DEF Core, Ordered
<1>5. \A p, q \in reads' : p.source = q.source /\ p.product = q.product /\ p.gen = q.gen => p = q
  BY <1>1 DEF Core, Single
<1>6. reads' \subseteq Read
  BY <1>1 DEF TypedSources
<1>7. CASE UNCHANGED <<state, shown, provider>>
  BY <1>1, <1>4, <1>5, <1>6, <1>7, CoreReads
<1>8. CASE /\ state' = [state EXCEPT ![s].gen = @ + 1]
           /\ shown' = [shown EXCEPT ![s] = content]
           /\ provider' = [provider EXCEPT ![s] = own]
  <2>1. /\ state' \in [Sources -> State]
        /\ state'[s].gen = state[s].gen + 1 /\ state'[s].enabled = state[s].enabled
        /\ state'[s].requested = state[s].requested /\ state'[s].loading = state[s].loading
        /\ \A t \in Sources \ {s} : state'[t] = state[t]
    <3> DEFINE next == [state[s] EXCEPT !.gen = state[s].gen + 1]
    <3>1. next \in State
      BY <1>2 DEF State
    <3>2. /\ next.gen = state[s].gen + 1 /\ next.enabled = state[s].enabled
          /\ next.requested = state[s].requested /\ next.loading = state[s].loading
      BY <1>2 DEF State
    <3>3. state' = [state EXCEPT ![s] = next]
      BY <1>2, <1>8 DEF TypedSources
    <3> HIDE DEF next
    <3> QED
      BY <1>2, <3>1, <3>2, <3>3 DEF TypedSources
  <2>2. /\ shown' \in [Sources -> Contents \cup {None}] /\ provider' \in [Sources -> Provider]
        /\ shown'[s] # None /\ provider'[s].on /\ provider'[s].gen = state[s].gen + 1
        /\ \A t \in Sources \ {s} : shown'[t] = shown[t] /\ provider'[t] = provider[t]
    BY <1>2, <1>3, <1>8 DEF TypedSources
  <2>3. TypedSources'
    BY <1>1, <1>6, <2>1, <2>2 DEF TypedSources
  <2>4. \A o \in operations : /\ o.source \in Sources /\ o.gen \in Nat
                              /\ o.gen <= state[o.source].gen
    BY OperationIs DEF Core, Ordered
  <2>5. Ordered'
    <3>1. \A t \in Sources : /\ provider'[t].gen <= state'[t].gen
                             /\ context'[t].gen <= state'[t].gen
                             /\ state[t].gen <= state'[t].gen
      BY <1>1, <2>1, <2>2, GenIs DEF Core, Ordered
    <3>2. \A o \in operations : o.gen <= state'[o.source].gen
      BY <1>2, <2>1, <2>4
    <3> QED
      BY <1>1, <1>4, <3>1, <3>2 DEF Ordered
  <2>6. Single'
    BY <1>1, <1>5 DEF Core, Single
  <2>7. DisplayAgrees' /\ Kept'
    BY <1>1, <2>1, <2>2 DEF Core, DisplayAgrees, Kept
  <2>8. \A o \in operations : IsCurrent(o)' => o.source # s /\ IsCurrent(o)
    BY <1>2, <2>1, <2>4 DEF IsCurrent
  <2>9. Current'
    BY <1>1, <2>1, <2>2, <2>4, <2>8 DEF Core, Current
  <2> QED
    BY <2>3, <2>5, <2>6, <2>7, <2>9 DEF Core
<1> QED
  BY <1>1, <1>7, <1>8

LEMMA ReloadIs ==
  ASSUME Reload
  PROVE  /\ state' = [s \in Sources |-> Blank] /\ context' = [s \in Sources |-> NoContext]
         /\ operations' = {} /\ reads' = {}
         /\ shown' = [s \in Sources |-> None] /\ provider' = [s \in Sources |-> NoProvider]
         /\ UNCHANGED <<version, events>>
  BY DEF Reload, outside

\* A page on which nothing has happened.
LEMMA NewPage ==
  ASSUME state = [s \in Sources |-> Blank], context = [s \in Sources |-> NoContext],
         operations = {}, reads = {},
         shown = [s \in Sources |-> None], provider = [s \in Sources |-> NoProvider],
         version \in 0 .. MaxVersion, events \in Scenarios
  PROVE  TypedSources /\ Core
<1>1. TypedSources
  BY DEF TypedSources, State, Blank, Context, NoContext, Provider, NoProvider
<1>2. Ordered /\ Single
  BY DEF Ordered, Single, Blank, NoContext, NoProvider
<1>3. DisplayAgrees /\ Kept /\ Current
  BY DEF DisplayAgrees, Kept, Current, Blank, NoProvider
<1> QED
  BY <1>1, <1>2, <1>3 DEF Core

LEMMA ReloadCore == ASSUME TypedSources, Reload PROVE TypedSources' /\ Core'
<1>1. version' \in 0 .. MaxVersion /\ events' \in Scenarios
  BY ReloadIs DEF TypedSources
<1>2. TypedSources'
  <2>1. Blank \in State /\ NoContext \in Context /\ NoProvider \in Provider
    BY DEF State, Blank, Context, NoContext, Provider, NoProvider
  <2>2. /\ state' \in [Sources -> State] /\ context' \in [Sources -> Context]
        /\ shown' \in [Sources -> Contents \cup {None}] /\ provider' \in [Sources -> Provider]
    BY <2>1, ReloadIs
  <2>3. operations' \subseteq Operation /\ reads' \subseteq Read
    BY ReloadIs
  <2> QED
    BY <1>1, <2>2, <2>3 DEF TypedSources
<1>3. Ordered' /\ Single'
  BY ReloadIs DEF Ordered, Single, Blank, NoContext, NoProvider
<1>4. DisplayAgrees' /\ Kept' /\ Current'
  BY ReloadIs DEF DisplayAgrees, Kept, Current, Blank, NoProvider
<1> QED
  BY <1>2, <1>3, <1>4 DEF Core

\* Steps that leave the sources and what is under way for them alone.
LEMMA CoreUntouched ==
  ASSUME TypedSources, Core, version' \in 0 .. MaxVersion,
         UNCHANGED <<events, state, context, operations, reads, shown, provider>>
  PROVE  TypedSources' /\ Core'
<1>1. TypedSources'
  BY DEF TypedSources
<1>2. Ordered' /\ Single' /\ DisplayAgrees' /\ Kept' /\ Current'
  BY DEF Core, Ordered, Single, DisplayAgrees, Kept, Current, IsCurrent
<1> QED
  BY <1>1, <1>2 DEF Core

-----------------------------------------------------------------------------
(* Each action keeps the types and the agreement. *)

LEMMA InitializeTurns ==
  ASSUME TypeOK, Core, Initialize
  PROVE  /\ StartupSelection \in SUBSET Sources
         /\ Activation(StartupSelection, state, FALSE, "startup")
         /\ Turns(Begin(StartupSelection, state, FALSE, "startup"))
<1>1. TypedSources /\ StartupSelection \in SUBSET Sources /\ "startup" \in Callers
  BY TypedParts, SelectionIs DEF Callers
<1>2. /\ Activation(StartupSelection, state, FALSE, "startup")
      /\ UNCHANGED <<outside, reads, displayVars>>
  BY DEF Initialize
<1>3. Turns(Begin(StartupSelection, state, FALSE, "startup"))
  BY <1>1, <1>2, ActivationTurns
<1> QED
  BY <1>1, <1>2, <1>3

LEMMA EnableTurns ==
  ASSUME TypeOK, Core, NEW s \in Sources, Enable(s)
  PROVE  Turns(Begin({s}, state, TRUE, "user"))
<1>1. TypedSources /\ {s} \in SUBSET Sources /\ "user" \in Callers
  BY TypedParts DEF Callers
<1>2. Activation({s}, state, TRUE, "user") /\ UNCHANGED <<outside, reads, displayVars>>
  BY DEF Enable
<1> QED
  BY <1>1, <1>2, ActivationTurns

LEMMA RefreshTurns ==
  ASSUME TypeOK, Core, Refresh
  PROVE  Turns(Begin(Active, state, FALSE, "refresh"))
<1>1. TypedSources /\ Active \in SUBSET Sources /\ "refresh" \in Callers
  BY TypedParts DEF Callers, Active
<1>2. Activation(Active, state, FALSE, "refresh") /\ UNCHANGED <<outside, reads, displayVars>>
  BY DEF Refresh
<1> QED
  BY <1>1, <1>2, ActivationTurns

\* The five operations of the controller have one shape.
Operated ==
    \/ Initialize \/ Refresh
    \/ \E s \in Sources : Enable(s) \/ Disable(s)
    \/ \E r \in Resets : Reset(r)

LEMMA OperatedTurns == ASSUME TypeOK, Core, Operated PROVE \E new : Turns(new)
<1>1. TypedSources
  BY TypedParts
<1>2. CASE Initialize
  BY <1>2, InitializeTurns
<1>3. CASE Refresh
  BY <1>3, RefreshTurns
<1>4. ASSUME NEW s \in Sources, Enable(s) PROVE \E new : Turns(new)
  BY <1>4, EnableTurns
<1>5. ASSUME NEW s \in Sources, Disable(s) PROVE \E new : Turns(new)
  BY <1>1, <1>5, DisableTurns
<1>6. ASSUME NEW r \in Resets, Reset(r) PROVE \E new : Turns(new)
  BY <1>1, <1>6, ResetTurns
<1> QED
  BY <1>2, <1>3, <1>4, <1>5, <1>6 DEF Operated

\* Steps that leave what is shown and what is under way for it as they are.
Aside ==
    \/ Finish
    \/ Change
    \/ UNCHANGED vars

LEMMA AsideIs ==
  ASSUME TypedSources, Aside
  PROVE  /\ UNCHANGED <<events, state, context, operations, reads, shown, provider>>
         /\ version' \in 0 .. MaxVersion /\ version' \in {version, version + 1}
<1>1. version \in 0 .. MaxVersion /\ MaxVersion \in Nat
  BY SourcesAssumption DEF TypedSources
<1>2. CASE Finish
  BY <1>1, <1>2 DEF Finish, FinishStartup, FinishRefresh, FinishReset, outside, sourceVars, displayVars
<1>3. CASE Change
  BY <1>1, <1>3 DEF Change, sourceVars, displayVars
<1>4. CASE UNCHANGED vars
  BY <1>1, <1>4 DEF vars, outside, sourceVars, displayVars
<1> QED
  BY <1>2, <1>3, <1>4 DEF Aside

LEMMA NextIs ==
  ASSUME [Next]_vars
  PROVE  \/ Operated
         \/ \E o \in operations :
              Load(o) \/ Prepare(o) \/ Commit(o) \/ Fail(o) \/ Superseded(o)
         \/ \E s \in Sources, p \in Products : RequestStatus(s, p)
         \/ \E r \in reads : SendStatus(r) \/ AnswerStatus(r) \/ DropStatus(r)
         \/ \E r \in reads : PublishStatus(r)
         \/ Aside
         \/ Reload
  BY DEF Next, Operated, Switch, Proceed, Status, Aside

LEMMA CoreNext == ASSUME TypeOK, Core, [Next]_vars PROVE TypedSources' /\ Core'
<1> USE TypedParts
<1>1. CASE Operated
  BY <1>1, OperatedTurns, TurnsSources, TurnsCore
<1>2. ASSUME NEW o \in operations, Load(o) \/ Prepare(o) \/ Superseded(o)
      PROVE  TypedSources' /\ Core'
  BY <1>2, LoadCore, PrepareCore, SupersededCore
<1>3. ASSUME NEW o \in operations, Commit(o) PROVE TypedSources' /\ Core'
  BY <1>3, CommitCore
<1>4. ASSUME NEW o \in operations, Fail(o) PROVE TypedSources' /\ Core'
  BY <1>4, FailEnds, EndsCore
<1>5. ASSUME NEW s \in Sources, NEW p \in Products, RequestStatus(s, p) PROVE TypedSources' /\ Core'
  BY <1>5, RequestCore
<1>6. ASSUME NEW r \in reads, SendStatus(r) \/ AnswerStatus(r) \/ DropStatus(r)
      PROVE  TypedSources' /\ Core'
  BY <1>6, ReadGoesOn
<1>7. ASSUME NEW r \in reads, PublishStatus(r) PROVE TypedSources' /\ Core'
  BY <1>7, PublishCore
<1>8. CASE Aside
  BY <1>8, AsideIs, CoreUntouched
<1>9. CASE Reload
  BY <1>9, ReloadCore
<1> QED
  BY NextIs, <1>1, <1>2, <1>3, <1>4, <1>5, <1>6, <1>7, <1>8, <1>9

LEMMA ChoicesTyped == ASSUME TypeOK, [Next]_vars PROVE TypedChoices'
<1> USE TypedParts
<1>1. TypedChoices /\ {"user", "startup", "refresh"} \cup Resets = Callers /\ Requested' \subseteq Sources
  BY DEF Callers, Requested
<1>2. CASE Initialize
  BY <1>1, <1>2, SelectionIs DEF Initialize, TypedChoices
<1>3. ASSUME NEW s \in Sources, Enable(s) \/ Disable(s) PROVE TypedChoices'
  BY <1>1, <1>3 DEF Enable, Disable, PersistCurrent, TypedChoices
<1>4. CASE Refresh
  BY <1>1, <1>4 DEF Refresh, startupVars, choiceVars, TypedChoices
<1>5. ASSUME NEW r \in Resets, Reset(r) PROVE TypedChoices'
  BY <1>1, <1>5, SourcesAssumption DEF Reset, TypedChoices
<1>6. ASSUME NEW o \in operations, Load(o) \/ Prepare(o) \/ Superseded(o) PROVE TypedChoices'
  BY <1>1, <1>6 DEF Load, Prepare, Superseded, startupVars, choiceVars, TypedChoices
<1>7. ASSUME NEW o \in operations, Commit(o) \/ Fail(o) PROVE TypedChoices'
  BY <1>1, <1>7 DEF Commit, Fail, PersistCurrent, startupVars, choiceVars, TypedChoices
<1>8. CASE Finish
  BY <1>1, <1>8, SourcesAssumption
     DEF Finish, FinishStartup, FinishRefresh, FinishReset, Requested, startupVars, TypedChoices
<1>9. CASE Status
  BY <1>1, <1>9
     DEF Status, RequestStatus, SendStatus, AnswerStatus, PublishStatus, DropStatus,
         startupVars, choiceVars, TypedChoices
<1>10. CASE Change \/ UNCHANGED vars
  BY <1>1, <1>10 DEF Change, vars, startupVars, choiceVars, TypedChoices
<1>11. CASE Reload
  BY <1>1, <1>11 DEF Reload, TypedChoices
<1> QED
  BY <1>2, <1>3, <1>4, <1>5, <1>6, <1>7, <1>8, <1>9, <1>10, <1>11 DEF Next, Switch, Proceed

LEMMA CoreSound == Spec => [](TypeOK /\ Core)
<1>1. Init => TypeOK /\ Core
  <2> SUFFICES ASSUME Init PROVE TypeOK /\ Core
    OBVIOUS
  <2>1. TypedSources /\ Core
    BY NewPage, SourcesAssumption DEF Init
  <2>2. TypedChoices
    BY DEF Init, TypedChoices
  <2> QED
    BY <2>1, <2>2, TypedParts
<1>2. TypeOK /\ Core /\ [Next]_vars => (TypeOK /\ Core)'
  BY CoreNext, ChoicesTyped, TypedPartsNext
<1> QED
  BY <1>1, <1>2, PTL DEF Spec

\* The state has its types: generations are never negative, a published status
\* finds a payload to go into, and the storage has a set of sources or nothing.
THEOREM SourcesTyped == Spec => []TypeOK
  BY CoreSound, PTL

\* Panel, map layers, filters and search agree on which sources are on, however
\* switches, resets, startup, refreshes, targeted reads and failures interleave:
\* the generations decide which of two operations a provider follows.
THEOREM DisplaysAgree == Spec => []DisplayAgrees
<1>1. Core => DisplayAgrees
  BY DEF Core
<1> QED
  BY <1>1, CoreSound, PTL

-----------------------------------------------------------------------------
(* The status of a Product. *)

LEMMA ContentIs ==
  ASSUME NEW c \in Contents, NEW p \in Products
  PROVE  c[p] \in Nat
  BY SourcesAssumption DEF Contents

LEMMA VersionIs == ASSUME TypedSources PROVE version \in Nat
  BY SourcesAssumption DEF TypedSources

LEMMA TurnsNewest ==
  ASSUME TypedSources, Core, Newest, NEW new, Turns(new)
  PROVE  Newest' /\ \A s \in Sources : shown'[s] \in {None, shown[s]}
<1>1. /\ new \subseteq Operation /\ \A n \in new : n.at = "load" /\ n.data = None
      /\ operations' = operations \cup new
      /\ UNCHANGED <<version, reads>>
  BY DEF Turns, outside
<1>2. \A s \in Sources :
        \/ /\ state'[s] = state[s] /\ context'[s] = context[s]
           /\ shown'[s] = shown[s]
        \/ /\ state'[s].gen > state[s].gen /\ context'[s].gen = state'[s].gen
           /\ shown'[s] \in {None, shown[s]}
  BY DEF Turns
<1>3. \A s \in Sources :
        /\ state[s].gen \in Nat /\ context[s].gen \in Nat /\ state'[s].gen \in Nat
        /\ context[s].gen <= state[s].gen
  BY TurnsSources, GenIs DEF Core, Ordered, TypedSources, State
<1>4. \A r \in reads : r.source \in Sources /\ r.gen \in Nat /\ r.gen <= context[r.source].gen
  BY ReadIs DEF Core, Ordered
<1>5. \A s \in Sources : shown'[s] # None => \A p \in Products : shown'[s][p] <= version
  BY <1>2 DEF Newest
<1>6. \A o \in operations' : o.data # None => \A p \in Products : o.data[p] <= version
  BY <1>1 DEF Newest
<1>7. ASSUME NEW o \in operations', IsCurrent(o)'
      PROVE  /\ \A r \in reads : r.source = o.source => r.gen # context'[o.source].gen
             /\ o.at # "load" /\ shown'[o.source] # None =>
                   \A p \in Products : shown'[o.source][p] <= o.data[p]
  <2>1. CASE o \in new
    <3>1. o.source \in Sources /\ o.at = "load" /\ context'[o.source].gen > context[o.source].gen
      <4>1. o.source \in Sources /\ o.at = "load" /\ state'[o.source].gen > state[o.source].gen
        BY <2>1 DEF Turns, Operation
      <4>2. state'[o.source] # state[o.source]
        BY <4>1, <1>3
      <4> QED
        BY <4>1, <4>2, <1>2, <1>3
    <3> QED
      BY <3>1, <1>3, <1>4
  <2>2. CASE o \notin new
    BY <1>7, <2>2, TurnsCurrent DEF Newest
  <2> QED
    BY <2>1, <2>2
<1>8. ASSUME NEW r \in reads, r.at = "answered", Owns(r)', shown'[r.source] # None
      PROVE  shown'[r.source][r.product] <= r.data
  <2>1. context'[r.source] = context[r.source] /\ shown'[r.source] = shown[r.source]
    BY <1>2, <1>3, <1>4, <1>8 DEF Owns
  <2> QED
    BY <1>8, <2>1 DEF Newest, Owns
<1>9. Newest'
  BY <1>1, <1>5, <1>6, <1>7, <1>8 DEF Newest
<1> QED
  BY <1>2, <1>9

\* An activation goes on or ends: its payload is what the backend knows when it
\* is read, and is kept.
LEMMA ContinuesNewest ==
  ASSUME TypedSources, Core, Newest, NEW o \in operations,
         Load(o) \/ Prepare(o) \/ Superseded(o)
  PROVE  Newest' /\ shown' = shown
<1> DEFINE content == [p \in Products |-> version]
           loaded  == [o EXCEPT !.at = "payload", !.data = content]
           ready   == [o EXCEPT !.at = "layers"]
<1>1. o \in Operation /\ o.source \in Sources
  BY OperationIs
<1>2. /\ loaded.source = o.source /\ loaded.gen = o.gen /\ loaded.data = content
      /\ ready.source = o.source /\ ready.gen = o.gen /\ ready.data = o.data
  BY <1>1 DEF Operation
<1>3. /\ \/ operations' = (operations \ {o}) \cup {loaded}
         \/ operations' = (operations \ {o}) \cup {ready} /\ o.at = "payload"
         \/ operations' = operations \ {o}
      /\ UNCHANGED <<version, state, context, reads, shown>>
  BY DEF Load, Prepare, Superseded, outside, sourceVars, displayVars
<1>4. /\ \A p \in Products : content[p] = version
      /\ version <= version
      /\ shown[o.source] # None => \A p \in Products : shown[o.source][p] <= version
  BY <1>1, VersionIs DEF Newest
<1> HIDE DEF content, loaded, ready
<1>5. \A q \in operations' :
        \/ q \in operations
        \/ /\ q.source = o.source /\ q.gen = o.gen
           /\ q.data = content \/ (q.data = o.data /\ o.at = "payload")
  <2>1. ASSUME NEW q \in operations', q \notin operations
        PROVE  q = loaded \/ (q = ready /\ o.at = "payload")
    <3>1. CASE operations' = (operations \ {o}) \cup {loaded}
      BY <2>1, <3>1
    <3>2. CASE operations' = (operations \ {o}) \cup {ready} /\ o.at = "payload"
      BY <2>1, <3>2
    <3>3. CASE operations' = operations \ {o}
      BY <2>1, <3>3
    <3> QED
      BY <1>3, <3>1, <3>2, <3>3
  <2> QED
    BY <1>2, <2>1
<1>6. \A q \in operations' : q.data # None => \A p \in Products : q.data[p] <= version
  BY <1>4, <1>5 DEF Newest
<1>7. ASSUME NEW q \in operations', IsCurrent(q)'
      PROVE  /\ \A r \in reads : r.source = q.source => r.gen # context[q.source].gen
             /\ q.at # "load" /\ shown[q.source] # None =>
                   \A p \in Products : shown[q.source][p] <= q.data[p]
  <2>1. IsCurrent(q)
    BY <1>3, <1>7 DEF IsCurrent
  <2>2. CASE q \in operations
    BY <2>1, <2>2 DEF Newest
  <2>3. CASE q \notin operations
    <3>1. q.source = o.source /\ IsCurrent(o) /\ (q.data = content \/ (q.data = o.data /\ o.at = "payload"))
      BY <1>5, <2>1, <2>3 DEF IsCurrent
    <3> QED
      BY <1>4, <3>1 DEF Newest
  <2> QED
    BY <2>2, <2>3
<1>8. Newest'
  BY <1>3, <1>6, <1>7 DEF Newest, Owns
<1> QED
  BY <1>3, <1>8

\* The activation that counts ends with what it has read, or without.
LEMMA EndsNewest ==
  ASSUME TypedSources, Core, Newest, NEW o \in operations, NEW next, Ends(o, next),
         \/ shown'[o.source] \in {None, shown[o.source]}
         \/ shown'[o.source] = o.data /\ o.at = "layers"
  PROVE  /\ Newest'
         /\ \A s \in Sources : shown[s] # None /\ shown'[s] # None =>
               \A p \in Products : shown[s][p] <= shown'[s][p]
<1>1. /\ o.source \in Sources /\ IsCurrent(o) /\ operations' = operations \ {o}
      /\ \A t \in Sources \ {o.source} : shown'[t] = shown[t]
      /\ UNCHANGED <<version, context, reads>>
  BY OperationIs DEF Ends
<1>2. \A s \in Sources : shown'[s] # None => \A p \in Products : shown'[s][p] <= version
  BY <1>1 DEF Newest
<1>3. ASSUME NEW q \in operations', IsCurrent(q)'
      PROVE  /\ \A r \in reads : r.source = q.source => r.gen # context[q.source].gen
             /\ q.at # "load" /\ shown'[q.source] # None =>
                   \A p \in Products : shown'[q.source][p] <= q.data[p]
  <2>1. q \in operations /\ IsCurrent(q) /\ shown'[q.source] = shown[q.source]
    BY <1>3, EndsCurrent
  <2> QED
    BY <2>1 DEF Newest
<1>4. ASSUME NEW r \in reads, r.at = "answered", Owns(r), shown'[r.source] # None
      PROVE  shown'[r.source][r.product] <= r.data
  <2>1. r.source # o.source /\ r.source \in Sources
    BY <1>1, <1>4, ReadIs DEF Newest, Owns
  <2> QED
    BY <1>1, <1>4, <2>1 DEF Newest
<1>5. Newest'
  BY <1>1, <1>2, <1>3, <1>4 DEF Newest, Owns
<1>6. ASSUME NEW s \in Sources, shown[s] # None, shown'[s] # None, NEW p \in Products
      PROVE  shown[s][p] <= shown'[s][p]
  <2>1. shown[s][p] <= shown[s][p]
    BY <1>6, ContentIs DEF TypedSources
  <2> QED
    BY <1>1, <1>6, <2>1 DEF Newest
<1> QED
  BY <1>5, <1>6

\* A read is asked for only while its source does not load.
LEMMA RequestNewest ==
  ASSUME TypedSources, Core, Newest, NEW s \in Sources, NEW p \in Products, RequestStatus(s, p)
  PROVE  Newest' /\ shown' = shown
<1> DEFINE asked == [source |-> s, product |-> p, gen |-> context[s].gen, at |-> "queued", data |-> 0]
<1>1. /\ reads' = reads \cup {asked} /\ Steady(s)
      /\ UNCHANGED <<version, state, context, operations, shown>>
  BY DEF RequestStatus, outside, sourceVars, displayVars
<1>2. asked.source = s /\ asked.at = "queued" /\ asked.data = 0 /\ 0 <= version
  BY VersionIs
<1> HIDE DEF asked
<1>3. \A o \in operations : IsCurrent(o) => o.source # s
  BY <1>1 DEF Steady, Core, Current
<1>4. \A r \in reads' : r.data <= version
  BY <1>1, <1>2 DEF Newest
<1>5. ASSUME NEW o \in operations, IsCurrent(o), NEW r \in reads', r.source = o.source
      PROVE  r.gen # context[o.source].gen
  BY <1>1, <1>2, <1>3, <1>5 DEF Newest
<1>6. ASSUME NEW r \in reads', r.at = "answered", Owns(r), shown[r.source] # None
      PROVE  shown[r.source][r.product] <= r.data
  BY <1>1, <1>2, <1>6 DEF Newest
<1>7. Newest'
  BY <1>1, <1>4, <1>5, <1>6 DEF Newest, IsCurrent, Owns
<1> QED
  BY <1>1, <1>7

LEMMA ReadNewest ==
  ASSUME TypedSources, Core, Newest, NEW r \in reads,
         SendStatus(r) \/ AnswerStatus(r) \/ DropStatus(r)
  PROVE  Newest' /\ shown' = shown
<1>1. /\ UNCHANGED <<version, state, context, operations, shown>>
      /\ \A q \in reads' :
           \/ q \in reads
           \/ /\ q.source = r.source /\ q.gen = r.gen /\ q.at = "sent" /\ q.data = r.data
           \/ /\ q.source = r.source /\ q.gen = r.gen /\ q.at = "answered" /\ q.data = version
              /\ q.product = r.product
  BY ReadGoesOn
<1>2. r.source \in Sources /\ r.product \in Products /\ version <= version
  BY ReadIs, VersionIs
<1>3. \A q \in reads' : q.data <= version
  BY <1>1, <1>2 DEF Newest
<1>4. ASSUME NEW o \in operations, IsCurrent(o), NEW q \in reads', q.source = o.source
      PROVE  q.gen # context[o.source].gen
  BY <1>1, <1>4 DEF Newest
<1>5. ASSUME NEW q \in reads', q.at = "answered", Owns(q), shown[q.source] # None
      PROVE  shown[q.source][q.product] <= q.data
  <2>1. CASE q \in reads
    BY <1>5, <2>1 DEF Newest
  <2>2. CASE q \notin reads
    <3>1. q.source = r.source /\ q.product = r.product /\ q.data = version
      BY <1>1, <1>5, <2>2
    <3> QED
      BY <1>2, <1>5, <3>1 DEF Newest
  <2> QED
    BY <2>1, <2>2
<1>6. Newest'
  BY <1>1, <1>3, <1>4, <1>5 DEF Newest, IsCurrent, Owns
<1> QED
  BY <1>1, <1>6

LEMMA PublishNewest ==
  ASSUME TypedSources, Core, Newest, NEW r \in reads, PublishStatus(r)
  PROVE  /\ Newest'
         /\ \A s \in Sources : shown[s] # None /\ shown'[s] # None =>
               \A p \in Products : shown[s][p] <= shown'[s][p]
<1> DEFINE s       == r.source
           content == [shown[s] EXCEPT ![r.product] = r.data]
<1>1. /\ UNCHANGED <<version, events, context, operations>>
      /\ reads' = reads \ {r} /\ r.at = "answered" /\ Owns(r)
      /\ ~state[s].loading
      /\ shown[s] \in Contents /\ shown[s] # None
      /\ \/ UNCHANGED <<state, shown>>
         \/ /\ state' = [state EXCEPT ![s].gen = @ + 1]
            /\ shown' = [shown EXCEPT ![s] = content]
  BY PublishIs
<1>2. s \in Sources /\ r.product \in Products /\ r.data <= version /\ shown[s][r.product] <= r.data
  BY <1>1, ReadIs DEF Newest
<1>3. content[r.product] = r.data /\ \A p \in Products \ {r.product} : content[p] = shown[s][p]
  BY <1>1, <1>2 DEF Contents
<1> HIDE DEF content, s
<1>4. \A t \in Sources : \/ shown'[t] = shown[t]
                         \/ t = s /\ shown'[s] = content
  <2>1. CASE UNCHANGED shown
    BY <2>1
  <2>2. CASE shown' = [shown EXCEPT ![s] = content]
    BY <1>2, <2>2 DEF TypedSources
  <2> QED
    BY <1>1, <2>1, <2>2
<1>5. \A t \in Sources : shown'[t] # None => \A p \in Products : shown'[t][p] <= version
  <2> SUFFICES ASSUME NEW t \in Sources, shown'[t] # None, NEW p \in Products
               PROVE  shown'[t][p] <= version
    OBVIOUS
  <2>1. CASE shown'[t] = shown[t]
    BY <2>1 DEF Newest
  <2>2. CASE t = s /\ shown'[s] = content
    BY <1>1, <1>2, <1>3, <2>2 DEF Newest
  <2> QED
    BY <1>4, <2>1, <2>2
<1>6. \A o \in operations : IsCurrent(o)' => o.source \in Sources /\ o.source # s /\ IsCurrent(o)
  <2> SUFFICES ASSUME NEW o \in operations, IsCurrent(o)'
               PROVE  o.source # s /\ IsCurrent(o)
    BY OperationIs
  <2>1. o.source \in Sources /\ o.gen <= state[o.source].gen /\ o.gen \in Nat /\ state[s].gen \in Nat
    BY <1>2, OperationIs, GenIs DEF Core, Ordered
  <2>2. CASE UNCHANGED state
    BY <1>1, <2>2 DEF IsCurrent, Core, Current
  <2>3. CASE state' = [state EXCEPT ![s].gen = @ + 1]
    <3>1. /\ state'[s].gen = state[s].gen + 1
          /\ \A t \in Sources \ {s} : state'[t] = state[t]
      <4>1. state[s] \in State
        BY <1>2, GenIs
      <4> QED
        BY <1>2, <2>3, <4>1 DEF TypedSources, State
    <3>2. o.source # s
      BY <2>1, <3>1 DEF IsCurrent
    <3> QED
      BY <2>1, <3>1, <3>2 DEF IsCurrent
  <2> QED
    BY <1>1, <2>2, <2>3
<1>7. ASSUME NEW o \in operations, IsCurrent(o)'
      PROVE  /\ \A q \in reads' : q.source = o.source => q.gen # context[o.source].gen
             /\ o.at # "load" /\ shown'[o.source] # None =>
                   \A p \in Products : shown'[o.source][p] <= o.data[p]
  <2>1. IsCurrent(o) /\ shown'[o.source] = shown[o.source]
    BY <1>4, <1>6, <1>7
  <2> QED
    BY <1>1, <2>1 DEF Newest
<1>8. ASSUME NEW q \in reads', q.at = "answered", Owns(q), shown'[q.source] # None
      PROVE  shown'[q.source][q.product] <= q.data
  <2>1. q \in reads /\ q # r /\ q.source \in Sources /\ q.product \in Products
    BY <1>1, ReadIs
  <2>2. q.source = s => q.product # r.product
    BY <1>1, <1>8, <2>1 DEF Core, Single, Owns, s
  <2>3. shown[q.source] # None
    BY <1>1, <1>4, <1>8, <2>1
  <2>4. shown'[q.source][q.product] = shown[q.source][q.product]
    BY <1>3, <1>4, <2>1, <2>2
  <2> QED
    BY <1>8, <2>1, <2>3, <2>4 DEF Newest
<1>9. Newest'
  BY <1>1, <1>5, <1>7, <1>8 DEF Newest, Owns
<1>10. ASSUME NEW t \in Sources, shown[t] # None, shown'[t] # None, NEW p \in Products
       PROVE  shown[t][p] <= shown'[t][p]
  <2>1. shown[t][p] \in Nat
    BY <1>10, ContentIs DEF TypedSources
  <2>2. CASE shown'[t] = shown[t]
    BY <2>1, <2>2
  <2>3. CASE t = s /\ shown'[s] = content
    BY <1>2, <1>3, <2>1, <2>3
  <2> QED
    BY <1>4, <2>2, <2>3
<1> QED
  BY <1>9, <1>10

LEMMA AsideNewest == ASSUME TypedSources, Newest, Aside PROVE Newest' /\ shown' = shown
<1>1. /\ UNCHANGED <<state, context, operations, reads, shown>>
      /\ version' \in {version, version + 1} /\ version \in Nat
  BY AsideIs, VersionIs
<1>2. \A s \in Sources, p \in Products : shown[s] # None /\ shown[s][p] <= version => shown[s][p] <= version'
  <2>1. \A s \in Sources, p \in Products : shown[s] # None => shown[s][p] \in Nat
    BY ContentIs DEF TypedSources
  <2> QED
    BY <1>1, <2>1
<1>3. \A o \in operations, p \in Products : o.data # None /\ o.data[p] <= version => o.data[p] <= version'
  <2>1. \A o \in operations, p \in Products : o.data # None => o.data[p] \in Nat
    BY OperationIs, ContentIs
  <2> QED
    BY <1>1, <2>1
<1>4. \A r \in reads : r.data <= version => r.data <= version'
  <2>1. \A r \in reads : r.data \in Nat
    BY ReadIs, SourcesAssumption
  <2> QED
    BY <1>1, <2>1
<1> QED
  BY <1>1, <1>2, <1>3, <1>4 DEF Newest, IsCurrent, Owns

\* What the map shows of a Product does not get older in a step.
NotOlder ==
    \A s \in Sources : shown[s] # None /\ shown'[s] # None =>
        \A p \in Products : shown[s][p] <= shown'[s][p]

LEMMA SameNotOlder ==
  ASSUME TypedSources, \A s \in Sources : shown'[s] \in {None, shown[s]}
  PROVE  NotOlder
<1>1. \A s \in Sources, p \in Products : shown[s] # None => shown[s][p] \in Nat
  BY ContentIs DEF TypedSources
<1> QED
  BY <1>1 DEF NotOlder

LEMMA NewestNext == ASSUME TypeOK, Core, Newest, [Next]_vars PROVE Newest' /\ NotOlder
<1> USE TypedParts
<1>1. CASE Operated
  BY <1>1, OperatedTurns, TurnsNewest, SameNotOlder
<1>2. ASSUME NEW o \in operations, Load(o) \/ Prepare(o) \/ Superseded(o)
      PROVE  Newest' /\ NotOlder
  BY <1>2, ContinuesNewest, SameNotOlder
<1>3. ASSUME NEW o \in operations, Commit(o) PROVE Newest' /\ NotOlder
  <2>1. PICK next : Ends(o, next)
    BY <1>3, CommitCore
  <2>2. shown'[o.source] = o.data /\ o.at = "layers"
    BY <1>3, CommitCore, OperationIs DEF TypedSources, Commit
  <2> QED
    BY <2>1, <2>2, EndsNewest DEF NotOlder
<1>4. ASSUME NEW o \in operations, Fail(o) PROVE Newest' /\ NotOlder
  <2>1. PICK next : Ends(o, next)
    BY <1>4, FailEnds
  <2>2. shown'[o.source] \in {None, shown[o.source]}
    BY <1>4, FailEnds, OperationIs
  <2> QED
    BY <2>1, <2>2, EndsNewest DEF NotOlder
<1>5. ASSUME NEW s \in Sources, NEW p \in Products, RequestStatus(s, p) PROVE Newest' /\ NotOlder
  BY <1>5, RequestNewest, SameNotOlder
<1>6. ASSUME NEW r \in reads, SendStatus(r) \/ AnswerStatus(r) \/ DropStatus(r)
      PROVE  Newest' /\ NotOlder
  BY <1>6, ReadNewest, SameNotOlder
<1>7. ASSUME NEW r \in reads, PublishStatus(r) PROVE Newest' /\ NotOlder
  BY <1>7, PublishNewest DEF NotOlder
<1>8. CASE Aside
  BY <1>8, AsideNewest, SameNotOlder
<1>9. CASE Reload
  <2>1. Newest'
    BY <1>9, ReloadIs DEF Newest
  <2>2. NotOlder
    BY <1>9, ReloadIs DEF NotOlder
  <2> QED
    BY <2>1, <2>2
<1> QED
  BY NextIs, <1>1, <1>2, <1>3, <1>4, <1>5, <1>6, <1>7, <1>8, <1>9

LEMMA NewestSound == Spec => [](TypeOK /\ Core /\ Newest)
<1>1. Init => Newest
  <2> SUFFICES ASSUME Init PROVE Newest
    OBVIOUS
  <2> QED
    BY DEF Init, Newest
<1>2. TypeOK /\ Core /\ Newest /\ [Next]_vars => Newest'
  BY NewestNext
<1> QED
  BY <1>1, <1>2, CoreSound, PTL DEF Spec

\* While a source stays on the map, what it shows of a Product never goes back to
\* an older status: neither by a refresh that is slow, nor by a targeted read
\* that ends after the source was loaded again, nor by two reads of it.
THEOREM StatusNeverOlder == Spec => NeverOlder
<1>1. TypeOK /\ Core /\ Newest /\ [Next]_vars =>
        [\A s \in Sources : shown[s] # None /\ shown'[s] # None =>
            \A p \in Products : shown'[s][p] >= shown[s][p]]_vars
  <2> SUFFICES ASSUME TypeOK, Core, Newest, [Next]_vars,
                      NEW s \in Sources, shown[s] # None, shown'[s] # None, NEW p \in Products
               PROVE  shown'[s][p] >= shown[s][p]
    OBVIOUS
  <2>1. shown[s][p] <= shown'[s][p]
    BY NewestNext DEF NotOlder
  <2>2. shown[s] \in Contents /\ shown'[s] \in Contents
    BY CoreNext, TypedParts DEF TypedSources
  <2> QED
    BY <2>1, <2>2, ContentIs
<1> QED
  BY <1>1, NewestSound, PTL DEF Spec, NeverOlder

-----------------------------------------------------------------------------
(* The choices of the user. *)

\* Steps after which the same is requested, chosen and stored, and the same
\* activations of the user count.
Steadily ==
    /\ Requested' = Requested
    /\ UNCHANGED <<events, running, newer, restored, stored, intent, page>>
    /\ \A q \in operations' : \E o \in operations :
          /\ q.persist = o.persist /\ q.caller = o.caller /\ q.was = o.was
          /\ IsCurrent(q)' => IsCurrent(o)
    /\ \A o \in operations : o.persist /\ IsCurrent(o) =>
          \E q \in operations' : q.persist /\ IsCurrent(q)'

LEMMA SteadyChoices == ASSUME Choices, Steadily PROVE Choices'
<1>1. Begun'
  BY DEF Choices, Begun, Steadily
<1>2. Kinds'
  BY DEF Choices, Kinds, Steadily
<1>3. Wanted'
  BY DEF Choices, Wanted, Steadily
<1>4. Chosen'
  <2>1. \A q \in operations' : q.persist /\ IsCurrent(q)' =>
          \E o \in operations : o.persist /\ IsCurrent(o)
    BY DEF Steadily
  <2> QED
    BY <2>1 DEF Choices, Chosen, Steadily
<1> QED
  BY <1>1, <1>2, <1>3, <1>4 DEF Choices

LEMMA ContinuesChoices ==
  ASSUME TypedSources, Choices, NEW o \in operations, Load(o) \/ Prepare(o) \/ Superseded(o)
  PROVE  Choices'
<1> DEFINE content == [p \in Products |-> version]
           loaded  == [o EXCEPT !.at = "payload", !.data = content]
           ready   == [o EXCEPT !.at = "layers"]
<1>1. o \in Operation
  BY OperationIs
<1>2. /\ loaded.source = o.source /\ loaded.gen = o.gen /\ loaded.persist = o.persist
      /\ loaded.caller = o.caller /\ loaded.was = o.was
      /\ ready.source = o.source /\ ready.gen = o.gen /\ ready.persist = o.persist
      /\ ready.caller = o.caller /\ ready.was = o.was
  BY <1>1 DEF Operation
<1>3. /\ \/ operations' = (operations \ {o}) \cup {loaded}
         \/ operations' = (operations \ {o}) \cup {ready}
         \/ operations' = operations \ {o} /\ ~IsCurrent(o)
      /\ state' = state
      /\ UNCHANGED <<events, running, newer, restored, stored, intent, page>>
  BY DEF Load, Prepare, Superseded, outside, sourceVars, startupVars, choiceVars
<1> HIDE DEF content, loaded, ready
<1>4. \A q : IsCurrent(q)' <=> IsCurrent(q)
  BY <1>3 DEF IsCurrent
<1>5. \A q \in operations' : \E p \in operations :
        /\ q.persist = p.persist /\ q.caller = p.caller /\ q.was = p.was
        /\ IsCurrent(q)' => IsCurrent(p)
  <2> SUFFICES ASSUME NEW q \in operations'
               PROVE  \E p \in operations :
                        /\ q.persist = p.persist /\ q.caller = p.caller /\ q.was = p.was
                        /\ IsCurrent(q) => IsCurrent(p)
    BY <1>4
  <2>1. q \in operations \/ q = loaded \/ q = ready
    BY <1>3
  <2>2. CASE q \in operations
    BY <2>2
  <2>3. CASE q = loaded \/ q = ready
    BY <1>2, <2>3 DEF IsCurrent
  <2> QED
    BY <2>1, <2>2, <2>3
<1>6. \A p \in operations : p.persist /\ IsCurrent(p) =>
        \E q \in operations' : q.persist /\ IsCurrent(q)'
  <2> SUFFICES ASSUME NEW p \in operations, p.persist, IsCurrent(p)
               PROVE  \E q \in operations' : q.persist /\ IsCurrent(q)
    BY <1>4
  <2>1. CASE p # o
    BY <1>3, <2>1
  <2>2. CASE p = o
    <3>1. loaded.persist /\ ready.persist /\ IsCurrent(loaded) /\ IsCurrent(ready)
      BY <1>2, <2>2 DEF IsCurrent
    <3> QED
      BY <1>3, <2>2, <3>1
  <2> QED
    BY <2>1, <2>2
<1>7. Requested' = Requested
  BY <1>3 DEF Requested
<1>8. Steadily
  BY <1>3, <1>5, <1>6, <1>7 DEF Steadily
<1> QED
  BY <1>8, SteadyChoices

\* Reads.
LEMMA StatusChoices ==
  ASSUME TypedSources, Core, Choices, Status
  PROVE  Choices'
<1>1. /\ UNCHANGED <<events, operations, running, newer, restored, stored, intent, page>>
      /\ \A s \in Sources : state'[s].requested = state[s].requested
      /\ \A o \in operations : IsCurrent(o)' <=> IsCurrent(o)
  <2>1. ASSUME NEW r \in reads, PublishStatus(r)
        PROVE  /\ UNCHANGED <<events, operations, running, newer, restored, stored, intent, page>>
               /\ \A s \in Sources : state'[s].requested = state[s].requested
               /\ \A o \in operations : IsCurrent(o)' <=> IsCurrent(o)
    <3>1. UNCHANGED <<events, operations, running, newer, restored, stored, intent, page>>
      BY <2>1 DEF PublishStatus, outside, startupVars, choiceVars
    <3>2. r.source \in Sources /\ state[r.source] \in State /\ state[r.source].gen \in Nat
      BY ReadIs, GenIs
    <3>3. ~state[r.source].loading
      BY <2>1, PublishIs
    <3>4. state' = state \/ state' = [state EXCEPT ![r.source].gen = @ + 1]
      BY <2>1, PublishIs
    <3>5. /\ \A s \in Sources : state'[s].requested = state[s].requested
          /\ \A s \in Sources \ {r.source} : state'[s] = state[s]
          /\ \/ state' = state
             \/ state'[r.source].gen = state[r.source].gen + 1
      <4>1. CASE state' = state
        BY <4>1
      <4>2. CASE state' = [state EXCEPT ![r.source].gen = @ + 1]
        BY <3>2, <4>2 DEF TypedSources, State
      <4> QED
        BY <3>4, <4>1, <4>2
    <3>6. \A o \in operations : IsCurrent(o) => o.source # r.source
      BY <3>3 DEF Core, Current
    <3>7. \A o \in operations : o.source = r.source /\ state' # state => ~IsCurrent(o)'
      <4>1. \A o \in operations : o.gen \in Nat /\ o.gen <= state[o.source].gen
        BY OperationIs DEF Core, Ordered
      <4> QED
        BY <3>2, <3>5, <4>1 DEF IsCurrent
    <3>8. \A o \in operations : o.source \in Sources
      BY OperationIs
    <3> QED
      BY <3>1, <3>5, <3>6, <3>7, <3>8 DEF IsCurrent
  <2>2. ASSUME UNCHANGED state,
               UNCHANGED <<events, operations, running, newer, restored, stored, intent, page>>
        PROVE  /\ \A s \in Sources : state'[s].requested = state[s].requested
               /\ \A o \in operations : IsCurrent(o)' <=> IsCurrent(o)
    BY <2>2 DEF IsCurrent
  <2>3. \/ \E r \in reads : PublishStatus(r)
        \/ UNCHANGED <<state, events, operations, running, newer, restored, stored, intent, page>>
    BY DEF Status, RequestStatus, SendStatus, AnswerStatus, DropStatus,
           outside, sourceVars, startupVars, choiceVars
  <2> QED
    BY <2>1, <2>2, <2>3
<1>2. Requested' = Requested
  BY <1>1 DEF Requested
<1>3. Steadily
  BY <1>1, <1>2 DEF Steadily
<1> QED
  BY <1>3, SteadyChoices

\* The other activations that count still count when one has ended.
LEMMA EndsOthers ==
  ASSUME TypedSources, Core, NEW o \in operations, NEW next, Ends(o, next)
  PROVE  /\ operations' = operations \ {o} /\ IsCurrent(o)
         /\ \A q \in operations' : IsCurrent(q)' <=> IsCurrent(q)
         /\ \A t \in Sources \ {o.source} : state'[t] = state[t]
         /\ state'[o.source] = next
<1>1. /\ operations' = operations \ {o} /\ IsCurrent(o) /\ o.source \in Sources
      /\ \A t \in Sources \ {o.source} : state'[t] = state[t]
      /\ state'[o.source] = next
  BY OperationIs DEF Ends, TypedSources
<1>2. ASSUME NEW q \in operations', IsCurrent(q) PROVE IsCurrent(q)'
  <2>1. q \in operations /\ q # o /\ q.source \in Sources
    BY <1>1, OperationIs
  <2>2. q.source # o.source
    BY <1>1, <1>2, <2>1 DEF IsCurrent, Core, Single
  <2> QED
    BY <1>1, <1>2, <2>1, <2>2 DEF IsCurrent
<1>3. \A q \in operations' : IsCurrent(q)' => IsCurrent(q)
  BY EndsCurrent
<1> QED
  BY <1>1, <1>2, <1>3

LEMMA CommitChoices ==
  ASSUME TypedSources, Core, Choices, NEW o \in operations, Commit(o)
  PROVE  Choices'
<1>1. /\ operations' = operations \ {o}
      /\ \A q \in operations' : IsCurrent(q)' <=> IsCurrent(q)
      /\ Requested' = Requested
  <2>1. PICK next : Ends(o, next)
    BY CommitCore
  <2>2. Requested' = Requested
    BY CommitCore DEF Requested
  <2> QED
    BY <2>1, <2>2, EndsOthers
<1>2. /\ UNCHANGED <<events, running, newer, restored, intent, page>>
      /\ IF o.persist THEN stored' = Requested' ELSE stored' = stored
  BY DEF Commit, PersistCurrent, Requested, outside, startupVars
<1>3. CASE ~o.persist
  <2>1. Steadily
    BY <1>1, <1>2, <1>3 DEF Steadily
  <2> QED
    BY <2>1, SteadyChoices
<1>4. CASE o.persist
  <2>1. Begun' /\ Kinds' /\ Wanted'
    BY <1>1, <1>2 DEF Choices, Begun, Kinds, Wanted
  <2>2. Chosen'
    BY <1>1, <1>2, <1>4 DEF Choices, Chosen
  <2> QED
    BY <2>1, <2>2 DEF Choices
<1> QED
  BY <1>2, <1>3, <1>4, OperationIs

LEMMA FailChoices ==
  ASSUME TypedSources, Core, Choices, NEW o \in operations, Fail(o)
  PROVE  Choices'
<1> DEFINE s    == o.source
           next == [state[s] EXCEPT !.requested = o.was, !.enabled = o.was, !.loading = FALSE]
<1>1. Ends(o, next) /\ s \in Sources /\ o.persist \in BOOLEAN
  BY FailEnds, OperationIs
<1>2. /\ operations' = operations \ {o} /\ IsCurrent(o)
      /\ \A q \in operations' : IsCurrent(q)' <=> IsCurrent(q)
      /\ \A t \in Sources \ {s} : state'[t] = state[t]
      /\ state'[s] = next
  BY <1>1, EndsOthers
<1>3. next.requested = o.was
  BY <1>1, GenIs DEF State
<1> HIDE DEF next, s
<1>4. /\ UNCHANGED <<events, running, newer, restored, page>>
      /\ o.caller \in {"user", "refresh"} \/ "outage" \in events
      /\ IF o.persist THEN stored' = Requested' ELSE stored' = stored
      /\ intent' = IF o.persist /\ ~o.was THEN intent \ {s} ELSE intent
  BY DEF Fail, PersistCurrent, Requested, outside, startupVars, s
<1>5. /\ o.persist <=> o.caller = "user"
      /\ o.caller = "user" => ~o.was /\ newer
      /\ o.caller = "refresh" => o.was
  BY DEF Choices, Kinds
<1>6. s \in Requested
  BY <1>1, <1>2 DEF IsCurrent, Requested, s
<1>7. Requested' = IF o.was THEN Requested ELSE Requested \ {s}
  BY <1>1, <1>2, <1>3, <1>6 DEF Requested
<1>8. Begun' /\ Kinds'
  BY <1>2, <1>4 DEF Choices, Begun, Kinds
<1>9. Wanted'
  BY <1>4, <1>7 DEF Choices, Wanted
<1>10. Chosen'
  <2> SUFFICES ASSUME events = {}, page = "open"
               PROVE  /\ Requested' = intent'
                      /\ running \cap Resets # {} =>
                            /\ intent' = Defaults
                            /\ \A q \in operations' : q.persist => ~IsCurrent(q)
                      /\ ~newer /\ restored # None => restored = intent'
                      /\ \/ stored' = intent'
                         \/ running \cap Resets # {}
                         \/ \E q \in operations' : q.persist /\ IsCurrent(q)
                         \/ "startup" \in running /\ ~newer /\ restored = intent'
    BY <1>2, <1>4 DEF Chosen
  <2>1. /\ Requested = intent
        /\ running \cap Resets # {} =>
              /\ intent = Defaults
              /\ \A q \in operations : q.persist => ~IsCurrent(q)
        /\ ~newer /\ restored # None => restored = intent
        /\ \/ stored = intent
           \/ running \cap Resets # {}
           \/ \E q \in operations : q.persist /\ IsCurrent(q)
           \/ "startup" \in running /\ ~newer /\ restored = intent
    BY DEF Choices, Chosen
  <2>2. CASE o.persist
    <3>1. ~o.was /\ newer /\ running \cap Resets = {}
      BY <1>2, <1>5, <2>1, <2>2
    <3> QED
      BY <1>4, <1>7, <2>1, <2>2, <3>1
  <2>3. CASE ~o.persist
    <3>1. o.was /\ Requested' = Requested /\ intent' = intent /\ stored' = stored
      BY <1>4, <1>5, <1>7, <2>3
    <3>2. \A q \in operations : q.persist => q \in operations'
      BY <1>2, <2>3
    <3> QED
      BY <1>2, <2>1, <3>1, <3>2
  <2> QED
    BY <1>1, <2>2, <2>3
<1> QED
  BY <1>8, <1>9, <1>10 DEF Choices

LEMMA FinishChoices == ASSUME TypeOK, Choices, Finish PROVE Choices'
<1>1. UNCHANGED <<events, state, operations, newer, restored, intent, page>> /\ Requested' = Requested
  BY DEF Finish, FinishStartup, FinishRefresh, FinishReset, Requested, outside, sourceVars, startupVars
<1>2. \A o \in operations : IsCurrent(o)' <=> IsCurrent(o)
  BY <1>1 DEF IsCurrent
<1>3. running' \subseteq running
  BY DEF Finish, FinishStartup, FinishRefresh, FinishReset
<1>4. Begun' /\ Kinds' /\ Wanted'
  BY <1>1, <1>3 DEF Choices, Begun, Kinds, Wanted
<1>5. Chosen'
  <2> SUFFICES ASSUME events = {}, page = "open"
               PROVE  \/ stored' = intent
                      \/ running' \cap Resets # {}
                      \/ \E q \in operations : q.persist /\ IsCurrent(q)
                      \/ "startup" \in running' /\ ~newer /\ restored = intent
    BY <1>1, <1>2, <1>3 DEF Choices, Chosen
  <2>1. /\ Requested = intent
        /\ running \cap Resets # {} => intent = Defaults
        /\ ~newer /\ restored # None => restored = intent
        /\ \/ stored = intent
           \/ running \cap Resets # {}
           \/ \E q \in operations : q.persist /\ IsCurrent(q)
           \/ "startup" \in running /\ ~newer /\ restored = intent
    BY DEF Choices, Chosen
  <2>2. CASE FinishStartup
    <3>1. /\ running' = running \ {"startup"}
          /\ stored' = IF ~newer /\ restored # None THEN restored ELSE stored
      BY <2>2 DEF FinishStartup
    <3>2. intent # None
      BY NoneApart DEF TypeOK
    <3>3. running' \cap Resets = running \cap Resets
      BY <3>1, SourcesAssumption
    <3> QED
      BY <2>1, <3>1, <3>2, <3>3
  <2>3. CASE FinishRefresh
    BY <2>1, <2>3 DEF FinishRefresh
  <2>4. ASSUME NEW r \in Resets, FinishReset(r)
        PROVE  stored' = intent
    BY <2>1, <2>4 DEF FinishReset
  <2> QED
    BY <2>2, <2>3, <2>4 DEF Finish
<1> QED
  BY <1>4, <1>5 DEF Choices

LEMMA InitializeChoices == ASSUME TypeOK, Core, Choices, Initialize PROVE Choices'
<1> DEFINE S   == StartupSelection
           new == Begin(S, state, FALSE, "startup")
<1>1. /\ page = "new" /\ page' = "open" /\ running' = {"startup"}
      /\ restored' = IF stored \in {None, {}} THEN S ELSE None
      /\ ~newer' /\ intent' = S /\ stored' = stored
      /\ operations = {} /\ Requested = {}
  BY DEF Initialize, Choices, Begun
<1>2. S \in SUBSET Sources /\ Activation(S, state, FALSE, "startup")
  BY InitializeTurns
<1>3. /\ TypedSources /\ state \in [Sources -> State] /\ "startup" \in Callers
      /\ FALSE \in BOOLEAN
  BY TypedParts DEF TypedSources, Callers
<1>4. stored \notin {None, {}} => S = stored
  BY DEF StartupSelection
<1> HIDE DEF S
<1>5. \A n \in new : n.persist = FALSE /\ n.caller = "startup"
  <2>1. /\ Begin(S, state, FALSE, "startup") \subseteq Operation
        /\ \A n \in Begin(S, state, FALSE, "startup") :
             /\ n.source \in S /\ n.gen = state[n.source].gen + 1
             /\ n.was = state[n.source].enabled /\ n.persist = FALSE /\ n.caller = "startup"
             /\ n.at = "load" /\ n.data = None
        /\ \A n, m \in Begin(S, state, FALSE, "startup") : n.source = m.source => n = m
    BY <1>2, <1>3, BeginIs
  <2> QED
    BY <2>1
<1>6. /\ operations' = operations \cup new
      /\ \A s \in S : state'[s].requested
      /\ \A s \in Sources \ S : state'[s] = state[s]
  BY <1>2, <1>3, Activated
<1> HIDE DEF new
<1>7. Requested' = S
  BY <1>1, <1>2, <1>6 DEF Requested
<1>8. Begun' /\ Kinds' /\ Wanted'
  BY <1>1, <1>5, <1>6, <1>7 DEF Begun, Kinds, Wanted
<1>9. Chosen'
  <2>1. running' \cap Resets = {}
    BY <1>1, SourcesAssumption
  <2>2. stored' = intent' \/ ("startup" \in running' /\ ~newer' /\ restored' = intent')
    BY <1>1, <1>4
  <2> QED
    BY <1>1, <1>7, <2>1, <2>2 DEF Chosen
<1> QED
  BY <1>8, <1>9 DEF Choices

LEMMA EnableChoices ==
  ASSUME TypeOK, Core, Choices, NEW s \in Sources, Enable(s)
  PROVE  Choices'
<1> DEFINE new == Begin({s}, state, TRUE, "user")
<1>1. /\ page = "open" /\ page' = page /\ running' = running /\ newer' = TRUE
      /\ ~state[s].requested /\ (running \cap Resets = {} \/ "hurry" \in events)
      /\ intent' = intent \cup {s}
      /\ UNCHANGED <<events, restored, stored>>
      /\ Activation({s}, state, TRUE, "user")
  BY DEF Enable, outside
<1>2. /\ TypedSources /\ state \in [Sources -> State] /\ "user" \in Callers
      /\ {s} \in SUBSET Sources /\ TRUE \in BOOLEAN
  BY TypedParts DEF TypedSources, Callers
<1>3. \A n \in new : /\ n.source = s /\ n.gen = state[s].gen + 1 /\ n.was = state[s].enabled
                     /\ n.persist = TRUE /\ n.caller = "user"
  <2>1. /\ Begin({s}, state, TRUE, "user") \subseteq Operation
        /\ \A n \in Begin({s}, state, TRUE, "user") :
             /\ n.source \in {s} /\ n.gen = state[n.source].gen + 1
             /\ n.was = state[n.source].enabled /\ n.persist = TRUE /\ n.caller = "user"
             /\ n.at = "load" /\ n.data = None
        /\ \A n, m \in Begin({s}, state, TRUE, "user") : n.source = m.source => n = m
    BY <1>2, BeginIs
  <2> QED
    BY <2>1
<1>4. /\ operations' = operations \cup new
      /\ state'[s].requested /\ state'[s].gen = state[s].gen + 1
      /\ \A t \in Sources \ {s} : state'[t] = state[t]
  <2>1. /\ operations' = operations \cup Begin({s}, state, TRUE, "user")
        /\ state' \in [Sources -> State] /\ context' \in [Sources -> Context]
        /\ \A t \in {s} :
             /\ state'[t].requested /\ state'[t].loading
             /\ state'[t].enabled = state[t].enabled
             /\ state'[t].gen = state[t].gen + 1 /\ context'[t].gen = state[t].gen + 1
        /\ \A t \in Sources \ {s} :
             /\ state'[t] = state[t]
             /\ state[t] = state[t] => context'[t] = context[t]
             /\ state[t] # state[t] => context'[t].gen = state[t].gen
    BY <1>1, <1>2, Activated
  <2> QED
    BY <2>1
<1>5. new # {}
  BY DEF Begin
<1> HIDE DEF new
<1>6. Requested' = Requested \cup {s}
  BY <1>4 DEF Requested
<1>7. ~state[s].enabled
  BY <1>1 DEF Core, Kept
<1>8. Begun' /\ Wanted'
  BY <1>1, <1>6 DEF Choices, Begun, Wanted
<1>9. Kinds'
  BY <1>1, <1>3, <1>4, <1>7 DEF Choices, Kinds
<1>10. Chosen'
  <2>1. PICK n \in new : TRUE
    BY <1>5
  <2>2. n \in operations' /\ n.persist /\ IsCurrent(n)'
    BY <1>3, <1>4, <2>1 DEF IsCurrent
  <2> QED
    BY <1>1, <1>6, <2>2 DEF Choices, Chosen
<1> QED
  BY <1>8, <1>9, <1>10 DEF Choices

LEMMA DisableChoices ==
  ASSUME TypeOK, Core, Choices, NEW s \in Sources, Disable(s)
  PROVE  Choices'
<1>1. /\ page = "open" /\ page' = page /\ running' = running /\ newer' = TRUE
      /\ (running \cap Resets = {} \/ "hurry" \in events)
      /\ intent' = intent \ {s} /\ stored' = Requested'
      /\ UNCHANGED <<events, operations, restored>>
  BY DEF Disable, PersistCurrent, Requested, outside
<1>2. TypedSources
  BY TypedParts
<1>3. Requested' = Requested \ {s}
  <2>1. /\ \A t \in Sources \ {s} : state'[t] = state[t]
        /\ ~state'[s].requested
    BY <1>2, DisableTurns, OffIs DEF TypedSources
  <2> QED
    BY <2>1 DEF Requested
<1>4. Begun' /\ Kinds' /\ Wanted'
  BY <1>1, <1>3 DEF Choices, Begun, Kinds, Wanted
<1>5. Chosen'
  BY <1>1, <1>3 DEF Choices, Chosen
<1> QED
  BY <1>4, <1>5 DEF Choices

LEMMA ResetChoices ==
  ASSUME TypeOK, Core, Choices, NEW r \in Resets, Reset(r)
  PROVE  Choices'
<1> DEFINE from == [s \in Sources |-> Off(s)]
           new  == Begin(Defaults, from, FALSE, r)
<1>1. /\ page = "open" /\ page' = page /\ running' = running \cup {r} /\ newer' = TRUE
      /\ intent' = Defaults
      /\ UNCHANGED <<events, restored, stored>>
  BY DEF Reset, outside
<1>2. TypedSources /\ Defaults \in SUBSET Sources /\ r \in Callers /\ FALSE \in BOOLEAN
  BY TypedParts, SourcesAssumption DEF Callers
<1>3. /\ Turns(new) /\ from \in [Sources -> State]
      /\ \A s \in Sources : /\ state'[s].gen > state[s].gen
                            /\ state'[s].requested <=> s \in Defaults
  BY <1>2, ResetTurns
<1> HIDE DEF from
<1>4. \A n \in new : n.persist = FALSE /\ n.caller = r
  <2>1. /\ Begin(Defaults, from, FALSE, r) \subseteq Operation
        /\ \A n \in Begin(Defaults, from, FALSE, r) :
             /\ n.source \in Defaults /\ n.gen = from[n.source].gen + 1
             /\ n.was = from[n.source].enabled /\ n.persist = FALSE /\ n.caller = r
             /\ n.at = "load" /\ n.data = None
        /\ \A n, m \in Begin(Defaults, from, FALSE, r) : n.source = m.source => n = m
    BY <1>2, <1>3, BeginIs
  <2> QED
    BY <2>1
<1>5. \A n \in new : n.caller # "user" /\ n.caller # "refresh"
  BY <1>4, SourcesAssumption
<1> HIDE DEF new
<1>6. operations' = operations \cup new
  BY <1>3 DEF Turns
<1>7. Requested' = Defaults
  BY <1>2, <1>3 DEF Requested
<1>8. Begun' /\ Kinds' /\ Wanted'
  BY <1>1, <1>4, <1>5, <1>6, <1>7 DEF Choices, Begun, Kinds, Wanted
<1>9. \A o \in operations' : o.persist => ~IsCurrent(o)'
  <2> SUFFICES ASSUME NEW o \in operations, IsCurrent(o)' PROVE FALSE
    BY <1>4, <1>6
  <2>1. /\ o.source \in Sources /\ o.gen \in Nat /\ state[o.source].gen \in Nat
        /\ o.gen <= state[o.source].gen
    BY <1>2, OperationIs, GenIs DEF Core, Ordered
  <2>2. state'[o.source].gen \in Nat
    BY <2>1, <1>2, <1>3, TurnsSources DEF TypedSources, State
  <2> QED
    BY <1>3, <2>1, <2>2 DEF IsCurrent
<1>10. Chosen'
  BY <1>1, <1>7, <1>9 DEF Chosen
<1> QED
  BY <1>8, <1>10 DEF Choices

LEMMA RefreshChoices == ASSUME TypeOK, Core, Choices, Refresh PROVE Choices'
<1> DEFINE new == Begin(Active, state, FALSE, "refresh")
<1>1. /\ page = "open" /\ running' = running \cup {"refresh"}
      /\ UNCHANGED <<events, page, newer, restored, stored, intent>>
      /\ Activation(Active, state, FALSE, "refresh")
  BY DEF Refresh, outside, startupVars, choiceVars
<1>2. /\ TypedSources /\ state \in [Sources -> State] /\ "refresh" \in Callers
      /\ Active \in SUBSET Sources /\ FALSE \in BOOLEAN
  BY TypedParts DEF TypedSources, Callers, Active
<1>3. /\ Turns(new)
      /\ \A n \in new : /\ n.source \in Active /\ n.was = state[n.source].enabled
                        /\ n.persist = FALSE /\ n.caller = "refresh"
  <2>1. /\ Begin(Active, state, FALSE, "refresh") \subseteq Operation
        /\ \A n \in Begin(Active, state, FALSE, "refresh") :
             /\ n.source \in Active /\ n.gen = state[n.source].gen + 1
             /\ n.was = state[n.source].enabled /\ n.persist = FALSE /\ n.caller = "refresh"
             /\ n.at = "load" /\ n.data = None
        /\ \A n, m \in Begin(Active, state, FALSE, "refresh") : n.source = m.source => n = m
    BY <1>2, BeginIs
  <2>2. Turns(Begin(Active, state, FALSE, "refresh"))
    BY RefreshTurns
  <2> QED
    BY <2>1, <2>2
<1>4. /\ \A s \in Active : state'[s].requested
      /\ \A s \in Sources \ Active : state'[s] = state[s]
  BY <1>1, <1>2, Activated
<1> HIDE DEF new
<1>5. operations' = operations \cup new
  BY <1>3 DEF Turns
<1>6. \A s \in Active : state[s].enabled /\ state[s].requested
  BY DEF Active, Core, Kept
<1>7. Requested' = Requested
  BY <1>4, <1>6 DEF Requested
<1>8. Begun' /\ Wanted'
  BY <1>1, <1>7 DEF Choices, Begun, Wanted
<1>9. Kinds'
  BY <1>1, <1>3, <1>5, <1>6 DEF Choices, Kinds
<1>10. \A o \in operations' : o.persist /\ IsCurrent(o)' => o \in operations /\ IsCurrent(o)
  BY <1>2, <1>3, TurnsCurrent
<1>11. \A o \in operations : o.persist /\ IsCurrent(o) => IsCurrent(o)'
  <2> SUFFICES ASSUME NEW o \in operations, o.persist, IsCurrent(o) PROVE IsCurrent(o)'
    OBVIOUS
  <2>1. o.source \in Sources /\ ~o.was /\ o.was = state[o.source].enabled
    BY <1>2, OperationIs DEF Core, Current, Choices, Kinds
  <2>2. state'[o.source] = state[o.source]
    BY <1>4, <1>6, <2>1
  <2> QED
    BY <2>2 DEF IsCurrent
<1>12. running' \cap Resets = running \cap Resets
  BY <1>1, SourcesAssumption
<1>13. Chosen'
  BY <1>1, <1>5, <1>7, <1>10, <1>11, <1>12 DEF Choices, Chosen
<1> QED
  BY <1>8, <1>9, <1>13 DEF Choices

LEMMA ChoicesNext == ASSUME TypeOK, Core, Choices, [Next]_vars PROVE Choices'
<1> USE TypedParts
<1>1. CASE Initialize
  BY <1>1, InitializeChoices
<1>2. ASSUME NEW s \in Sources, Enable(s) \/ Disable(s) PROVE Choices'
  BY <1>2, EnableChoices, DisableChoices
<1>3. CASE Refresh
  BY <1>3, RefreshChoices
<1>4. ASSUME NEW r \in Resets, Reset(r) PROVE Choices'
  BY <1>4, ResetChoices
<1>5. ASSUME NEW o \in operations, Proceed(o) PROVE Choices'
  BY <1>5, ContinuesChoices, CommitChoices, FailChoices DEF Proceed
<1>6. CASE Finish
  BY <1>6, FinishChoices
<1>7. CASE Status
  BY <1>7, StatusChoices
<1>8. CASE Change \/ UNCHANGED vars
  <2>1. UNCHANGED <<events, state, operations, running, newer, restored, stored, intent, page>>
    BY <1>8 DEF Change, vars, outside, sourceVars, startupVars, choiceVars
  <2>2. Steadily
    BY <2>1 DEF Steadily, Requested, IsCurrent
  <2> QED
    BY <2>2, SteadyChoices
<1>9. CASE Reload
  <2>1. page' = "new" /\ operations' = {} /\ running' = {} /\ state' = [s \in Sources |-> Blank]
    BY <1>9 DEF Reload
  <2>2. Requested' = {}
    BY <2>1 DEF Requested, Blank
  <2> QED
    BY <2>1, <2>2 DEF Choices, Begun, Kinds, Wanted, Chosen
<1> QED
  BY <1>1, <1>2, <1>3, <1>4, <1>5, <1>6, <1>7, <1>8, <1>9 DEF Next, Switch

LEMMA ChoicesSound == Spec => [](TypeOK /\ Core /\ Choices)
<1>1. Init => Choices
  <2> SUFFICES ASSUME Init PROVE Choices
    OBVIOUS
  <2>1. Requested = {}
    BY DEF Init, Requested, Blank
  <2> QED
    BY <2>1 DEF Init, Choices, Begun, Kinds, Wanted, Chosen
<1>2. TypeOK /\ Core /\ Choices /\ [Next]_vars => Choices'
  BY ChoicesNext
<1> QED
  BY <1>1, <1>2, CoreSound, PTL DEF Spec

LEMMA SourcesSound == Spec => []IInv
  BY NewestSound, ChoicesSound, PTL DEF IInv

\* A source is switched on only while the user wants it: no activation of startup,
\* of a refresh, of an earlier switch or of an earlier reset, however late its
\* payload comes, brings back what was switched off in the meantime.
THEOREM NothingComesBack == Spec => OnlyIfWanted
<1>1. TypeOK /\ Core /\ Choices /\ [Next]_vars =>
        [\A s \in Sources : state'[s].enabled /\ ~state[s].enabled => s \in intent]_vars
  <2> SUFFICES ASSUME TypeOK, Core, Choices, [Next]_vars,
                      NEW s \in Sources, state'[s].enabled, ~state[s].enabled
               PROVE  s \in Requested
    BY DEF Choices, Wanted
  <2> USE TypedParts
  <2>1. CASE Operated
    BY <2>1, OperatedTurns DEF Turns
  <2>2. ASSUME NEW o \in operations, Load(o) \/ Prepare(o) \/ Superseded(o) PROVE FALSE
    BY <2>2 DEF Load, Prepare, Superseded, sourceVars
  <2>3. ASSUME NEW o \in operations, Commit(o) PROVE s \in Requested
    <3>1. o.source \in Sources /\ state[o.source].requested
      BY <2>3, OperationIs DEF Commit, IsCurrent
    <3>2. s # o.source => state'[s] = state[s]
      BY <2>3, CommitCore, EndsOthers
    <3> QED
      BY <3>1, <3>2 DEF Requested
  <2>4. ASSUME NEW o \in operations, Fail(o) PROVE FALSE
    <3> DEFINE next == [state[o.source] EXCEPT !.requested = o.was, !.enabled = o.was, !.loading = FALSE]
    <3>1. Ends(o, next) /\ o.was = state[o.source].enabled /\ state[o.source] \in State
      BY <2>4, FailEnds, OperationIs, GenIs
    <3>2. next.enabled = o.was
      BY <3>1 DEF State
    <3> HIDE DEF next
    <3>3. state'[s] = state[s] \/ (s = o.source /\ state'[s] = next)
      BY <3>1, EndsOthers
    <3> QED
      BY <3>1, <3>2, <3>3
  <2>5. ASSUME NEW r \in reads, PublishStatus(r) PROVE FALSE
    <3>1. r.source \in Sources /\ state[r.source].enabled
      BY <2>5, ReadIs, PublishIs
    <3>2. s # r.source => state'[s] = state[s]
      BY <2>5, <3>1, PublishIs DEF TypedSources
    <3> QED
      BY <3>1, <3>2
  <2>6. CASE \/ \E t \in Sources, p \in Products : RequestStatus(t, p)
             \/ \E r \in reads : SendStatus(r) \/ AnswerStatus(r) \/ DropStatus(r)
             \/ Aside
    BY <2>6, AsideIs DEF RequestStatus, SendStatus, AnswerStatus, DropStatus, sourceVars
  <2>7. CASE Reload
    BY <2>7, ReloadIs DEF Blank
  <2> QED
    BY NextIs, <2>1, <2>2, <2>3, <2>4, <2>5, <2>6, <2>7
<1> QED
  BY <1>1, ChoicesSound, PTL DEF Spec, OnlyIfWanted

\* Where sources load and nothing is chosen while a reset runs, the storage has
\* the user's last choice once nothing is under way: whichever of startup,
\* switches, refreshes and resets ends last, the next visit starts from what the
\* user has chosen and not from what an older operation has restored.
THEOREM ChoiceIsStored == Spec => []StoredIsIntent
<1>1. IInv => StoredIsIntent
  BY DEF IInv, Choices, Chosen, StoredIsIntent, Quiet
<1> QED
  BY <1>1, SourcesSound, PTL

=============================================================================
