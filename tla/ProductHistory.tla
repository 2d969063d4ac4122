--------------------------- MODULE ProductHistory ---------------------------
(***************************************************************************)
(* The audit event of one manual export: a Hangfire job runs the export    *)
(* under its Product's lock, an event row in SQL records that it started   *)
(* and how it ended, and two parameters of the job, the execution guard    *)
(* and the receipt of its outcome, survive a dead worker.  A recurring job *)
(* closes the events that were left pending from what the job left behind. *)
(* Any write to SQL or to the job may be lost, or be made and reported as  *)
(* lost; a worker may die between any two steps; Hangfire may give a job   *)
(* it takes for abandoned to a second worker, and an operator may run an   *)
(* ended job again or delete it.                                           *)
(***************************************************************************)
EXTENDS Naturals

CONSTANTS Workers,    \* the processes that take jobs: two when a new Worker overlaps the old one
          None,
          Api,        \* the holder of the Product's lock that is neither
          MaxFaults,  \* lost writes, deaths and duplicate fetches
          MaxCalls    \* what operators do from the dashboard and the API

Results == {"Succeeded", "Failed", "ManualReview"}
Rows == [outcome : Results \cup {"Pending"}, started : BOOLEAN]

ASSUME HistoryAssumption == /\ None \notin Workers \cup Results \cup Rows
                            /\ Api \notin Workers
                            /\ Api # None
                            /\ MaxFaults \in Nat
                            /\ MaxCalls \in Nat

Running == {"Enqueued", "Processing"}
States == Running \cup {"Succeeded", "Failed", "Deleted"}
Jobs == [state : States, guard : BOOLEAN, term : Results \cup {None}, told : BOOLEAN]

VARIABLES job,     \* Hangfire's record: its state, the guard, the receipt, the success shown
          event,   \* the row of ProductHistoryEvent, or None
          track,   \* what the export did: how often it began, whether its completion is stored
          lock,    \* who holds the Product's lock
          worker,  \* worker -> its place in the code, the outcome it is recording, the row it read
          faults,
          calls

vars == <<job, event, track, lock, worker, faults, calls>>

Places == {"idle", "fetched", "busy", "unguarded", "reject", "find", "receipt", "guard", "insert",
           "existing", "check", "mark", "accept", "run", "mutating", "persist", "verify", "finalize",
           "reported", "release", "ended", "sweep", "evidence", "settle"}

Idle == [pc |-> "idle", term |-> None, seen |-> None]

Init ==
  /\ job = [state |-> "Enqueued", guard |-> FALSE, term |-> None, told |-> FALSE]
  /\ event = None
  /\ track = [begun |-> 0, stored |-> FALSE]
  /\ lock = None
  /\ worker = [w \in Workers |-> Idle]
  /\ faults = 0
  /\ calls = 0

At(w, pc) == worker[w].pc = pc
Goes(w, pc) == worker' = [worker EXCEPT ![w].pc = pc]
Sees(w, pc, row) == worker' = [worker EXCEPT ![w].pc = pc, ![w].seen = row]

\* A failure leaves through Throws, which keeps no success to report.
Throws(w) == worker' = [worker EXCEPT ![w].pc = "release", ![w].term = None]

\* FinishBestEffort of an outcome; an outcome that is already in the receipt is not persisted again.
Finishes(w, pc, result) == worker' = [worker EXCEPT ![w].pc = pc, ![w].term = result]

Fault == faults < MaxFaults /\ faults' = faults + 1

Pending == event # None /\ event.outcome = "Pending"

Working(w) == worker[w].pc \notin {"idle", "sweep", "evidence", "settle"}

-----------------------------------------------------------------------------
(* The job gets the lock, or records that it could not start.              *)

Fetch(w) ==
  /\ At(w, "idle")
  /\ job.state \in Running
  /\ IF job.state = "Processing" /\ \E v \in Workers : Working(v) THEN Fault ELSE UNCHANGED faults
  /\ job' = [job EXCEPT !.state = "Processing"]
  /\ Goes(w, "fetched")
  /\ UNCHANGED <<event, track, lock, calls>>

TryAcquire(w) ==
  /\ At(w, "fetched")
  /\ IF lock = None THEN lock' = w /\ Goes(w, "find")
                    ELSE UNCHANGED lock /\ Goes(w, "busy")
  /\ UNCHANGED <<job, event, track, faults, calls>>

\* RecordNotStarted: neither an event nor a guard of an execution is touched.
ReadBusy(w) ==
  /\ At(w, "busy")
  /\ \/ event = None /\ Goes(w, "unguarded") /\ UNCHANGED faults
     \/ event # None /\ Throws(w) /\ UNCHANGED faults
     \/ Throws(w) /\ Fault
  /\ UNCHANGED <<job, event, track, lock, calls>>

ReadGuardBusy(w) ==
  /\ At(w, "unguarded")
  /\ IF job.guard THEN Throws(w) ELSE Goes(w, "reject")
  /\ UNCHANGED <<job, event, track, lock, faults, calls>>

\* The unique operation id refuses a second row.
CreatePending(made) ==
  event' = IF made /\ event = None THEN [outcome |-> "Pending", started |-> FALSE] ELSE event

InsertRejected(w) ==
  /\ At(w, "reject")
  /\ \E made \in BOOLEAN :
       /\ CreatePending(made)
       /\ \/ made /\ event = None /\ Finishes(w, "persist", "Failed") /\ UNCHANGED faults
          \/ event # None /\ Throws(w) /\ UNCHANGED faults
          \/ Throws(w) /\ Fault
  /\ UNCHANGED <<job, track, lock, calls>>

-----------------------------------------------------------------------------
(* The job has the lock: a first execution, or one after another.          *)

Find(w) ==
  /\ At(w, "find")
  /\ \/ Sees(w, IF event = None THEN "guard" ELSE "existing", event) /\ UNCHANGED faults
     \/ Goes(w, "receipt") /\ Fault
  /\ UNCHANGED <<job, event, track, lock, calls>>

\* Mutant of Receipt: a receipt of anything is taken for a success.
ReceiptOfAnything(w) ==
  /\ At(w, "receipt")
  /\ IF job.term # None
       THEN /\ job' = [job EXCEPT !.told = TRUE]
            /\ Finishes(w, "release", "Succeeded")
       ELSE Throws(w) /\ UNCHANGED job
  /\ UNCHANGED <<event, track, lock, faults, calls>>

\* The row cannot be read: a receipt of success is published, anything else fails the job.
Receipt(w) ==
  /\ At(w, "receipt")
  /\ IF job.term = "Succeeded"
       THEN /\ job' = [job EXCEPT !.told = TRUE]
            /\ Finishes(w, "release", "Succeeded")
       ELSE Throws(w) /\ UNCHANGED job
  /\ UNCHANGED <<event, track, lock, faults, calls>>

Guard(w) ==
  /\ At(w, "guard")
  /\ IF job.guard THEN Throws(w) ELSE Goes(w, "insert")
  /\ UNCHANGED <<job, event, track, lock, faults, calls>>

Insert(w) ==
  /\ At(w, "insert")
  /\ \E made \in BOOLEAN :
       /\ CreatePending(made)
       /\ \/ made /\ event = None /\ Goes(w, "check") /\ UNCHANGED faults
          \/ event # None /\ Throws(w) /\ UNCHANGED faults
          \/ Throws(w) /\ Fault
  /\ UNCHANGED <<job, track, lock, calls>>

\* An event of this operation exists: the export is never run again.
Existing(w) ==
  LET row == worker[w].seen IN
  /\ At(w, "existing")
  /\ \/ /\ job.term # None
        /\ row.outcome \in {"Pending", job.term}
        /\ Finishes(w, "verify", job.term)
     \/ /\ job.term # None
        /\ row.outcome \notin {"Pending", job.term}
        /\ Throws(w)
     \/ /\ job.term = None
        /\ IF row.outcome = "Pending" THEN Finishes(w, "persist", "ManualReview") ELSE Throws(w)
  /\ UNCHANGED <<job, event, track, lock, faults, calls>>

\* ExecuteLocked up to the checkpoint: the Product and its version are as requested, or not.
Check(w) ==
  /\ At(w, "check")
  /\ Goes(w, "mark") \/ Finishes(w, "persist", "Failed")
  /\ UNCHANGED <<job, event, track, lock, faults, calls>>

\* The checkpoint: the guard of the job first, then the row.
SetGuard(w) ==
  /\ At(w, "mark")
  /\ \E made \in BOOLEAN :
       /\ job' = [job EXCEPT !.guard = @ \/ made]
       /\ \/ made /\ Goes(w, "accept") /\ UNCHANGED faults
          \/ Finishes(w, "persist", "ManualReview") /\ Fault
  /\ UNCHANGED <<event, track, lock, calls>>

Accepts == Pending /\ ~event.started

\* Mutant of MarkStarted: the answer of the checkpoint is not looked at.
MarkStartedAnyway(w) ==
  /\ At(w, "accept")
  /\ \E made \in BOOLEAN :
       /\ event' = IF made /\ Accepts THEN [event EXCEPT !.started = TRUE] ELSE event
       /\ (made /\ UNCHANGED faults) \/ Fault
  /\ Goes(w, "run")
  /\ UNCHANGED <<job, track, lock, calls>>

MarkStarted(w) ==
  /\ At(w, "accept")
  /\ \E made \in BOOLEAN :
       /\ event' = IF made /\ Accepts THEN [event EXCEPT !.started = TRUE] ELSE event
       /\ \/ made /\ Accepts /\ Goes(w, "run") /\ UNCHANGED faults
          \/ ~Accepts /\ Finishes(w, "persist", "ManualReview") /\ UNCHANGED faults
          \/ Finishes(w, "persist", "ManualReview") /\ Fault
  /\ UNCHANGED <<job, track, lock, calls>>

\* The export is refused before its mutation hook, fails there, or begins.
Run(w) ==
  /\ At(w, "run")
  /\ \/ \E result \in {"Failed", "ManualReview"} : Finishes(w, "persist", result) /\ UNCHANGED track
     \/ Goes(w, "mutating") /\ track' = [track EXCEPT !.begun = @ + 1]
  /\ UNCHANGED <<job, event, lock, faults, calls>>

\* CompleteExportWithHistory, or a failure on the way there.
Export(w) ==
  /\ At(w, "mutating")
  /\ \E stored \in BOOLEAN :
       /\ track' = [track EXCEPT !.stored = @ \/ stored]
       /\ \/ stored /\ Finishes(w, "persist", "Succeeded") /\ UNCHANGED faults
          \/ ~stored /\ Finishes(w, "persist", "ManualReview") /\ UNCHANGED faults
          \/ Finishes(w, "persist", "ManualReview") /\ Fault
  /\ UNCHANGED <<job, event, lock, calls>>

-----------------------------------------------------------------------------
(* FinishBestEffort: the receipt, the success shown, the row.  A failure   *)
(* on the way is only logged.                                              *)

Persist(w) ==
  /\ At(w, "persist")
  /\ \E made \in BOOLEAN :
       /\ job' = [job EXCEPT !.term = IF made THEN worker[w].term ELSE @]
       /\ \/ made /\ Goes(w, "verify") /\ UNCHANGED faults
          \/ Goes(w, "reported") /\ Fault
  /\ UNCHANGED <<event, track, lock, calls>>

Publish(result) == job' = IF result = "Succeeded" THEN [job EXCEPT !.told = TRUE] ELSE job

HasExactCompletion(result) == result = "Succeeded" => track.stored

Verify(w) ==
  /\ At(w, "verify")
  /\ Publish(worker[w].term)
  /\ \/ HasExactCompletion(worker[w].term) /\ Goes(w, "finalize") /\ UNCHANGED faults
     \/ ~HasExactCompletion(worker[w].term) /\ Goes(w, "reported") /\ UNCHANGED faults
     \/ Goes(w, "reported") /\ Fault
  /\ UNCHANGED <<event, track, lock, calls>>

\* Mutant of TryFinalize: the last outcome wins.
TryFinalizeAlways(made, result) ==
  event' = IF made THEN [event EXCEPT !.outcome = result] ELSE event

\* Only a row without an outcome takes one.
TryFinalize(made, result) ==
  event' = IF made /\ Pending THEN [event EXCEPT !.outcome = result] ELSE event

Finalize(w) ==
  /\ At(w, "finalize")
  /\ \E made \in BOOLEAN :
       /\ TryFinalize(made, worker[w].term)
       /\ Goes(w, "reported")
       /\ (made /\ UNCHANGED faults) \/ Fault
  /\ UNCHANGED <<job, track, lock, calls>>

\* A failure on the way publishes the success once more.
Reported(w) ==
  /\ At(w, "reported")
  /\ Publish(worker[w].term)
  /\ Goes(w, "release")
  /\ UNCHANGED <<event, track, lock, faults, calls>>

\* Closing the lock's file gives it up.
Unlock(w) == lock' = IF lock = w THEN None ELSE lock

Release(w) ==
  /\ At(w, "release")
  /\ Unlock(w)
  /\ Goes(w, "ended")
  /\ UNCHANGED <<job, event, track, faults, calls>>

\* Hangfire closes the job as it was left, if it is still the one that is processed;
\* one that a stopping worker cancelled goes back to the queue.
Ended(w) ==
  /\ At(w, "ended")
  /\ IF job.state # "Processing" THEN UNCHANGED <<job, faults>>
     ELSE \/ /\ job' = [job EXCEPT !.state = IF worker[w].term = "Succeeded" THEN "Succeeded" ELSE "Failed"]
             /\ UNCHANGED faults
          \/ worker[w].term # "Succeeded" /\ job' = [job EXCEPT !.state = "Enqueued"] /\ Fault
  /\ worker' = [worker EXCEPT ![w] = Idle]
  /\ UNCHANGED <<event, track, lock, calls>>

-----------------------------------------------------------------------------
(* ReconcileAsync of the row, under the same lock.                         *)

\* Mutant of Sweep: the evidence is looked at without the lock.
SweepUnlocked(w) ==
  /\ At(w, "idle")
  /\ Pending
  /\ Goes(w, "sweep")
  /\ UNCHANGED <<job, event, track, lock, faults, calls>>

Sweep(w) ==
  /\ At(w, "idle")
  /\ Pending
  /\ lock = None
  /\ lock' = w
  /\ Goes(w, "sweep")
  /\ UNCHANGED <<job, event, track, faults, calls>>

\* Back to the pool with the lock given up.
Leaves(w) == worker' = [worker EXCEPT ![w] = Idle] /\ Unlock(w)

Reread(w) ==
  /\ At(w, "sweep")
  /\ \/ Pending /\ Sees(w, "evidence", event) /\ UNCHANGED <<lock, faults>>
     \/ ~Pending /\ Leaves(w) /\ UNCHANGED faults
     \/ Leaves(w) /\ Fault
  /\ UNCHANGED <<job, event, track, calls>>

\* Mutant of Closed: only a job that failed is closed.
ClosedFailed == job.state = "Failed"

Closed == job.state \in {"Succeeded", "Failed", "Deleted"}

\* What the evidence says of an ended job: its receipt, else whether it may have started.
Uncertain(row) == row.started \/ job.guard \/ job.state = "Succeeded"
\* Mutant of Evidence: a job without a receipt says nothing.
EvidenceReceipt(row) == job.term

Evidence(row) == IF job.term # None THEN job.term
                 ELSE IF Uncertain(row) THEN "ManualReview" ELSE "Failed"

ReadJob(w) ==
  /\ At(w, "evidence")
  /\ \/ /\ Closed
        /\ HasExactCompletion(job.term)
        /\ Finishes(w, "settle", Evidence(worker[w].seen))
        /\ UNCHANGED <<lock, faults>>
     \/ /\ ~Closed \/ ~HasExactCompletion(job.term)
        /\ Leaves(w)
        /\ UNCHANGED faults
     \/ Leaves(w) /\ Fault
  /\ UNCHANGED <<job, event, track, calls>>

Settle(w) ==
  /\ At(w, "settle")
  /\ \E made \in BOOLEAN :
       /\ TryFinalize(made, worker[w].term)
       /\ (made /\ UNCHANGED faults) \/ Fault
  /\ Leaves(w)
  /\ UNCHANGED <<job, track, calls>>

-----------------------------------------------------------------------------
(* The surroundings.                                                       *)

\* A process dies: its lock file is closed, its job stays where it was.
Die(w) ==
  /\ ~At(w, "idle")
  /\ Fault
  /\ Leaves(w)
  /\ UNCHANGED <<job, event, track, calls>>

Call == calls < MaxCalls /\ calls' = calls + 1

\* The dashboard puts an ended job back, or deletes one that runs or waits.
Dashboard ==
  /\ Call
  /\ job' = [job EXCEPT !.state = IF @ \in Running THEN "Deleted" ELSE "Enqueued"]
  /\ UNCHANGED <<event, track, lock, worker, faults>>

ApiLocks == lock = None /\ Call /\ lock' = Api /\ UNCHANGED <<job, event, track, worker, faults>>
ApiUnlocks == lock = Api /\ lock' = None /\ UNCHANGED <<job, event, track, worker, faults, calls>>

Step(w) ==
  \/ TryAcquire(w) \/ ReadBusy(w) \/ ReadGuardBusy(w) \/ InsertRejected(w)
  \/ Find(w) \/ Receipt(w) \/ Guard(w) \/ Insert(w) \/ Existing(w)
  \/ Check(w) \/ SetGuard(w) \/ MarkStarted(w) \/ Run(w) \/ Export(w)
  \/ Persist(w) \/ Verify(w) \/ Finalize(w) \/ Reported(w) \/ Release(w) \/ Ended(w)
  \/ Reread(w) \/ ReadJob(w) \/ Settle(w)

Next ==
  \/ \E w \in Workers : Step(w) \/ Fetch(w) \/ Sweep(w) \/ Die(w)
  \/ Dashboard \/ ApiLocks \/ ApiUnlocks

Spec == Init /\ [][Next]_vars

\* A worker goes on, takes the job that waits and comes back to the sweep that Hangfire
\* enqueues every quarter of an hour; the API gives the lock back.
FairSpec ==
  /\ Spec
  /\ \A w \in Workers : WF_vars(Step(w)) /\ SF_vars(Fetch(w)) /\ SF_vars(Sweep(w))
  /\ WF_vars(ApiUnlocks)

-----------------------------------------------------------------------------
\* Every variable has its type.
TypeOK ==
  /\ job \in Jobs
  /\ event \in Rows \cup {None}
  /\ track \in [begun : Nat, stored : BOOLEAN]
  /\ lock \in Workers \cup {None, Api}
  /\ worker \in [Workers -> [pc : Places, term : Results \cup {None}, seen : Rows \cup {None}]]
  /\ faults \in 0..MaxFaults
  /\ calls \in 0..MaxCalls

\* However often the job is taken, requeued or run twice at once, the export of an operation
\* begins at most once, and only after its row says that it started.
ExportedOnce == /\ track.begun <= 1
                /\ track.begun > 0 => event # None /\ event.started

\* The outcome on record is what happened: a success has its completion record, and what is
\* recorded as failed never began, nor will it.
OutcomeTrue ==
  event # None => /\ event.outcome = "Succeeded" => track.stored
                  /\ event.outcome = "Failed" => track.begun = 0

\* A job shown as successful did export, whatever happened to its audit.
SuccessTrue == job.told \/ job.state = "Succeeded" => track.stored

\* A terminal row is immutable, and a receipt of success is never replaced by a later run.
EvidenceKept ==
  [][ /\ event # None /\ ~Pending => event' = event
      /\ job.term = "Succeeded" => job'.term = "Succeeded" ]_vars

\* An event does not stay pending.
PendingEnds == Pending ~> ~Pending

=============================================================================
