--------------------------- MODULE CoalescingDpc ---------------------------
(***************************************************************************)
(* The enqueue gate of the ENC change scan (CoalescingDpcFilter): a hash   *)
(* shared by every Hangfire server that names the one DPC job that is      *)
(* queued or running, or the reservation of the client that is enqueueing  *)
(* one.  A client filter brackets the creation of the job record, a server *)
(* filter ends the gate when the job has been performed.                   *)
(***************************************************************************)
EXTENDS Naturals, FiniteSets

CONSTANTS
    Clients,    \* callers of BackgroundJob.Enqueue: scheduler ticks, requests
    Jobs,       \* job identifiers; bounds how many jobs a behaviour creates
    NoOwner,    \* the empty job-id field
    Faults      \* which of "stall", "client", "worker" and "delete" may happen

ASSUME GateAssumption ==
    /\ Clients \cap Jobs = {}
    /\ NoOwner \notin Clients \cup Jobs
    /\ Faults \subseteq {"stall", "client", "worker", "delete"}

VARIABLES
    owner,      \* job-id field: empty, a client's reservation, or a job
    stale,      \* the reserved-at field is two minutes old
    client,     \* where each client is inside the enqueue
    ticket,     \* the job record a client has created
    job         \* each job's state as the storage reports it

gateVars == <<owner, stale>>
vars == <<owner, stale, client, ticket, job>>

Active == {"Enqueued", "Processing", "Performed"}
Terminal == {"Succeeded", "Failed"}

\* An "Aborting" job is Deleted in the storage, and its body still runs.
Removed == {"Aborting", "Deleted"}

Uncompleted(j) == job[j] \in {"Enqueued", "Processing", "Aborting"}

TypeOK ==
    /\ owner \in {NoOwner} \cup Clients \cup Jobs
    /\ stale \in BOOLEAN
    /\ client \in [Clients -> {"idle", "reserved", "created"}]
    /\ ticket \in [Clients -> {NoOwner} \cup Jobs]
    /\ job \in [Jobs -> {"absent"} \cup Active \cup Terminal \cup Removed]

Init ==
    /\ owner = NoOwner
    /\ stale = FALSE
    /\ client = [c \in Clients |-> "idle"]
    /\ ticket = [c \in Clients |-> NoOwner]
    /\ job = [j \in Jobs |-> "absent"]

\* Mutant of GateCloses: only reservations close the gate.
GateIgnoresJobs == owner \in Clients /\ ~stale

\* Mutant of GateCloses: a reservation of any age closes the gate.
GateHonoursStale ==
    \/ owner \in Clients
    \/ owner \in Jobs /\ job[owner] \in Active

\* OnCreating cancels the enqueue while a fresh reservation or a job that is
\* in no terminal state owns the gate.
GateCloses ==
    \/ owner \in Clients /\ ~stale
    \/ owner \in Jobs /\ job[owner] \in Active

\* The bound on a behaviour: every reservation still finds an unused job.
JobsLeft ==
    Cardinality({c \in Clients : client[c] = "reserved"})
        < Cardinality({j \in Jobs : job[j] = "absent"})

\* OnCreating, under the distributed lock: take the gate with a new
\* reservation.  A cancelled enqueue changes nothing.
Reserve(c) ==
    /\ client[c] = "idle"
    /\ JobsLeft
    /\ ~GateCloses
    /\ owner' = c
    /\ stale' = FALSE
    /\ client' = [client EXCEPT ![c] = "reserved"]
    /\ UNCHANGED <<ticket, job>>

\* Hangfire writes the job record between the two client filters; workers
\* see it at once.
CreateJob(c) ==
    \E j \in Jobs :
        /\ client[c] = "reserved"
        /\ job[j] = "absent"
        /\ job' = [job EXCEPT ![j] = "Enqueued"]
        /\ ticket' = [ticket EXCEPT ![c] = j]
        /\ client' = [client EXCEPT ![c] = "created"]
        /\ UNCHANGED gateVars

\* The job record cannot be written: OnCreated is called without a job and
\* empties the field, if the gate still holds the reservation.
CreateFails(c) ==
    /\ client[c] = "reserved"
    /\ owner' = IF owner = c THEN NoOwner ELSE owner
    /\ client' = [client EXCEPT ![c] = "idle"]
    /\ UNCHANGED <<stale, ticket, job>>

\* Mutant of Confirm: the job id is written without comparing the reservation.
ConfirmBlindly(c) ==
    /\ client[c] = "created"
    /\ owner' = ticket[c]
    /\ client' = [client EXCEPT ![c] = "idle"]
    /\ ticket' = [ticket EXCEPT ![c] = NoOwner]
    /\ UNCHANGED <<stale, job>>

\* OnCreated: replace the reservation by the job, if the gate still holds it.
Confirm(c) ==
    /\ client[c] = "created"
    /\ owner' = IF owner = c THEN ticket[c] ELSE owner
    /\ client' = [client EXCEPT ![c] = "idle"]
    /\ ticket' = [ticket EXCEPT ![c] = NoOwner]
    /\ UNCHANGED <<stale, job>>

\* The client's process dies inside the enqueue; the gate keeps what it has.
ClientCrash(c) ==
    /\ "client" \in Faults
    /\ client[c] # "idle"
    /\ client' = [client EXCEPT ![c] = "idle"]
    /\ ticket' = [ticket EXCEPT ![c] = NoOwner]
    /\ UNCHANGED <<owner, stale, job>>

\* Two minutes pass over a reservation that was not confirmed.
Expire ==
    /\ owner \in Clients
    /\ ~stale
    /\ "stall" \in Faults \/ client[owner] = "idle"
    /\ stale' = TRUE
    /\ UNCHANGED <<owner, client, ticket, job>>

\* A worker fetches the job.  Fetching it again after its worker died
\* (WorkerCrash) is the same step.
Fetch(j) ==
    /\ job[j] = "Enqueued"
    /\ job' = [job EXCEPT ![j] = "Processing"]
    /\ UNCHANGED <<owner, stale, client, ticket>>

\* OnPerformed runs when the body has returned or thrown, before Hangfire
\* moves the job to its terminal state; a deleted one is in it already.
Perform(j) ==
    /\ job[j] \in {"Processing", "Aborting"}
    /\ owner' = IF owner = j THEN NoOwner ELSE owner
    /\ job' = [job EXCEPT ![j] = IF @ = "Processing" THEN "Performed" ELSE "Deleted"]
    /\ UNCHANGED <<stale, client, ticket>>

\* Mutant of Finish: without AutomaticRetry(Attempts = 0) Hangfire schedules a
\* failed scan once more.
FinishWithRetries(j) ==
    /\ job[j] = "Performed"
    /\ \E s \in {"Succeeded", "Scheduled"} : job' = [job EXCEPT ![j] = s]
    /\ UNCHANGED <<owner, stale, client, ticket>>

\* AutomaticRetry(Attempts = 0): a failed scan is not queued again.
Finish(j) ==
    /\ job[j] = "Performed"
    /\ \E s \in Terminal : job' = [job EXCEPT ![j] = s]
    /\ UNCHANGED <<owner, stale, client, ticket>>

\* The worker dies; the sliding invisibility timeout makes the job fetchable
\* again, unless it was deleted.  Fault "worker": it may die after OnPerformed
\* as well, before the terminal state is stored.
WorkerCrash(j) ==
    /\ \/ job[j] \in {"Processing", "Aborting"}
       \/ job[j] = "Performed" /\ "worker" \in Faults
    /\ job' = [job EXCEPT ![j] = IF @ = "Aborting" THEN "Deleted" ELSE "Enqueued"]
    /\ UNCHANGED <<owner, stale, client, ticket>>

\* The job is deleted in the dashboard.  Its worker, if it has one, goes on
\* until it notices.
Delete(j) ==
    /\ "delete" \in Faults
    /\ job[j] \in Active
    /\ job' = [job EXCEPT ![j] = IF @ = "Processing" THEN "Aborting" ELSE "Deleted"]
    /\ UNCHANGED <<owner, stale, client, ticket>>

Enqueue(c) == CreateJob(c) \/ CreateFails(c) \/ Confirm(c)

Next ==
    \/ \E c \in Clients : Reserve(c) \/ Enqueue(c) \/ ClientCrash(c)
    \/ \E j \in Jobs : Fetch(j) \/ Perform(j) \/ Finish(j) \/ WorkerCrash(j) \/ Delete(j)
    \/ Expire

Spec == Init /\ [][Next]_vars

\* A started enqueue goes on or its process dies; workers poll the queue;
\* clocks advance; the worker of one job does not die every time (strong
\* fairness of Perform).
Fairness ==
    /\ \A c \in Clients : WF_vars(Enqueue(c))
    /\ \A j \in Jobs :
        WF_vars(Fetch(j)) /\ SF_vars(Perform(j)) /\ SF_vars(Finish(j))
    /\ WF_vars(Expire)

FairSpec == Spec /\ Fairness

-----------------------------------------------------------------------------

\* The filter's promise, "at most one queued or running DPC invocation across
\* Hangfire servers".
AtMostOneDpc ==
    \A i, j \in Jobs : Uncompleted(i) /\ Uncompleted(j) => i = j

\* A queued or running job that owns the gate keeps it until it has itself
\* been performed: neither a late OnCreated nor another job's OnPerformed
\* takes the gate away from it.  (A job that was deleted while it runs does not
\* keep it.)
OwnerKeepsGate ==
    [][\A j \in Jobs :
          owner = j /\ job[j] \in {"Enqueued", "Processing"} /\ owner' # j
              => job'[j] = "Performed"]_vars

\* A client or a worker that dies with the gate taken does not close it for
\* ever.
GateReopens == GateCloses ~> ~GateCloses
=============================================================================
