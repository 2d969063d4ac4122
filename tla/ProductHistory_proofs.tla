------------------------ MODULE ProductHistory_proofs ------------------------
(***************************************************************************)
(* What ProductHistory promises, for any number of workers, faults and     *)
(* operators' calls.  The invariant says what the lock protects: whoever   *)
(* is in the locked part of the code holds it, so one execution at most is *)
(* on its way; it found no row before, and inserted the only one.          *)
(***************************************************************************)
EXTENDS ProductHistory, TLAPS

\* The places of an execution that has inserted its row and may still export.
Executing == {"check", "mark", "accept", "run", "mutating"}

\* The places that are reached only with the lock.
Locked == Executing \cup
          {"find", "receipt", "guard", "insert", "existing", "sweep", "evidence", "settle"}

Executes(w) == worker[w].pc \in Executing

\* The export of the operation did not begin, and will not.
Dead == /\ event # None
        /\ track.begun = 0
        /\ \A w \in Workers : ~Executes(w)

\* Who is in the locked part has the lock; so has who records an outcome, unless it is
\* the rejection of a job that never got it.
LockHeld ==
  \A w \in Workers :
    /\ worker[w].pc \in Locked => lock = w
    /\ worker[w].pc = "persist" => worker[w].term = "Failed" \/ lock = w

\* An execution has the row; nothing of it is recorded before it is over.
ExecutionFirst ==
  \A w \in Workers :
    /\ Executes(w) => event # None
    /\ Executes(w) /\ worker[w].pc # "mutating" => track.begun = 0
    /\ worker[w].pc \in {"run", "mutating"} => event.started
    /\ worker[w].pc = "mutating" => track.begun > 0
    /\ Executes(w) \/ worker[w].pc = "persist" => job.term # "Succeeded"

Began == /\ track.begun <= 1
         /\ track.begun > 0 => event # None /\ event.started
         /\ track.stored => track.begun > 0

\* The sweep read the row under the lock that the checkpoint needs.
SweepCurrent ==
  \A w \in Workers :
    worker[w].pc = "evidence" => event # None /\ (event.started => worker[w].seen.started)

FailedIsDead ==
  /\ event # None /\ event.outcome = "Failed" => Dead
  /\ job.term = "Failed" => Dead
  /\ \A w \in Workers : worker[w].term = "Failed" => Dead

SucceededIsStored ==
  /\ event # None /\ event.outcome = "Succeeded" => track.stored
  /\ job.term = "Succeeded" \/ job.told \/ job.state = "Succeeded" => track.stored
  /\ \A w \in Workers : worker[w].term = "Succeeded" => track.stored

\* An outcome that is being recorded is one.
Decided ==
  \A w \in Workers : worker[w].pc \in {"persist", "verify", "finalize", "settle"} => worker[w].term # None

Typed == TypeOK /\ Decided

IInv == /\ Typed /\ LockHeld /\ ExecutionFirst /\ Began /\ SweepCurrent
        /\ FailedIsDead /\ SucceededIsStored
-----------------------------------------------------------------------------
LEMMA TypedNext == Typed /\ [Next]_vars => Typed'
<1> USE HistoryAssumption DEF Jobs, Typed, TypeOK, Decided, Rows, Results, Places, States, Running,
  At, Goes, Idle
<1> SUFFICES ASSUME Typed, [Next]_vars PROVE Typed'
  OBVIOUS
<1>1. ASSUME NEW w \in Workers, Step(w) PROVE Typed'
  <2>1. CASE TryAcquire(w)
    BY <2>1, SMTT(30) DEF TryAcquire
  <2>2. CASE ReadBusy(w)
    BY <2>2, SMTT(30) DEF ReadBusy, Throws, Fault
  <2>3. CASE ReadGuardBusy(w)
    BY <2>3 DEF ReadGuardBusy, Throws
  <2>4. CASE InsertRejected(w)
    BY <2>4 DEF InsertRejected, CreatePending, Finishes, Throws, Fault
  <2>5. CASE Find(w)
    BY <2>5 DEF Find, Sees, Fault
  <2>6. CASE Receipt(w)
    <3>1. job' \in Jobs
      <4>1. job' = job \/ job' = [job EXCEPT !.told = TRUE]
        BY <2>6 DEF Receipt, Publish
      <4> QED BY <4>1 DEF Jobs
    <3> QED BY <2>6, <3>1 DEF Receipt, Jobs, Finishes, Throws, Fault
  <2>7. CASE Guard(w)
    BY <2>7 DEF Guard, Throws
  <2>8. CASE Insert(w)
    BY <2>8 DEF Insert, CreatePending, Throws, Fault
  <2>9. CASE Existing(w)
    BY <2>9 DEF Existing, Finishes, Throws
  <2>10. CASE Check(w)
    BY <2>10, SMTT(30) DEF Check, Finishes
  <2>11. CASE SetGuard(w)
    BY <2>11 DEF SetGuard, Finishes, Fault
  <2>12. CASE MarkStarted(w)
    <3>1. event' \in Rows \cup {None}
      <4>1. event' = event \/ event' = [event EXCEPT !.started = TRUE]
        BY <2>12 DEF MarkStarted
      <4>2. event' = event \/ event # None
        BY <2>12, SMTT(30) DEF MarkStarted, Accepts, Pending
      <4> QED BY <4>1, <4>2
    <3> QED BY <2>12, <3>1, SMTT(30) DEF MarkStarted, Finishes, Fault
  <2>13. CASE Run(w)
    BY <2>13 DEF Run, Finishes
  <2>14. CASE Export(w)
    BY <2>14, SMTT(30) DEF Export, Finishes, Fault
  <2>15. CASE Persist(w)
    BY <2>15 DEF Persist, Fault
  <2>16. CASE Verify(w)
    <3>1. job' \in Jobs
      <4>1. job' = job \/ job' = [job EXCEPT !.told = TRUE]
        BY <2>16 DEF Verify, Publish
      <4> QED BY <4>1 DEF Jobs
    <3> QED BY <2>16, <3>1 DEF Verify, Jobs, Finishes, Throws, Fault
  <2>17. CASE Finalize(w)
    <3>1. event' \in Rows \cup {None}
      BY <2>17 DEF Finalize, TryFinalize, Pending
    <3> QED BY <2>17, <3>1 DEF Finalize, Fault
  <2>18. CASE Reported(w)
    <3>1. job' \in Jobs
      <4>1. job' = job \/ job' = [job EXCEPT !.told = TRUE]
        BY <2>18 DEF Reported, Publish
      <4> QED BY <4>1 DEF Jobs
    <3> QED BY <2>18, <3>1 DEF Reported, Jobs, Finishes, Throws, Fault
  <2>19. CASE Release(w)
    BY <2>19 DEF Release, Unlock
  <2>20. CASE Ended(w)
    BY <2>20 DEF Ended, Fault
  <2>21. CASE Reread(w)
    BY <2>21 DEF Reread, Sees, Leaves, Unlock, Fault
  <2>22. CASE ReadJob(w)
    BY <2>22 DEF ReadJob, Closed, HasExactCompletion, Evidence, Uncertain, Finishes, Leaves, Unlock,
      Fault
  <2>23. CASE Settle(w)
    <3>1. event' \in Rows \cup {None}
      BY <2>23 DEF Settle, TryFinalize, Pending
    <3> QED BY <2>23, <3>1 DEF Settle, Leaves, Unlock, Fault
  <2> QED BY <1>1, <2>1, <2>2, <2>3, <2>4, <2>5, <2>6, <2>7, <2>8, <2>9, <2>10, <2>11, <2>12, <2>13,
    <2>14, <2>15, <2>16, <2>17, <2>18, <2>19, <2>20, <2>21, <2>22, <2>23 DEF Step
<1>2. ASSUME NEW w \in Workers, Fetch(w) PROVE Typed'
  BY <1>2 DEF Fetch, Working, Fault
<1>3. ASSUME NEW w \in Workers, Sweep(w) PROVE Typed'
  BY <1>3 DEF Sweep, Pending
<1>4. ASSUME NEW w \in Workers, Die(w) PROVE Typed'
  BY <1>4 DEF Die, Fault, Leaves, Unlock
<1>5. CASE Dashboard
  BY <1>5 DEF Dashboard, Call
<1>6. CASE ApiLocks \/ ApiUnlocks
  BY <1>6 DEF ApiLocks, ApiUnlocks, Call
<1>7. CASE UNCHANGED vars
  BY <1>7 DEF vars
<1> QED BY <1>1, <1>2, <1>3, <1>4, <1>5, <1>6, <1>7 DEF Next

-----------------------------------------------------------------------------
LEMMA InvNext == IInv /\ [Next]_vars => IInv'
<1> USE HistoryAssumption DEF At, Goes, Idle, Locked, Executing, Executes
<1> SUFFICES ASSUME IInv, [Next]_vars PROVE IInv'
  OBVIOUS
<1>0. Typed /\ Typed'
  BY TypedNext DEF IInv
<1> USE <1>0 DEF Typed, TypeOK, Decided, Rows, Jobs, Results, Places
<1> USE DEF IInv, LockHeld, ExecutionFirst, Began, SweepCurrent, FailedIsDead, SucceededIsStored
<1>1. ASSUME NEW w \in Workers, Step(w) PROVE IInv'
  <2>1. CASE TryAcquire(w)
    BY <2>1, SMTT(30) DEF Dead, TryAcquire
  <2>2. CASE ReadBusy(w)
    BY <2>2, SMTT(30) DEF Dead, ReadBusy, Throws, Fault
  <2>3. CASE ReadGuardBusy(w)
    <3> USE <2>3 DEF ReadGuardBusy, Throws
    <3>1. LockHeld'
      OBVIOUS
    <3>2. ExecutionFirst'
      OBVIOUS
    <3>3. Began'
      OBVIOUS
    <3>4. SweepCurrent'
      OBVIOUS
    <3>0. Dead => Dead'
      BY <3>1 DEF Dead
    <3>5. FailedIsDead'
      BY <3>0, SMTT(30) DEF Dead
    <3>6. SucceededIsStored'
      OBVIOUS
    <3> QED BY <3>1, <3>2, <3>3, <3>4, <3>5, <3>6 DEF IInv
  <2>4. CASE InsertRejected(w)
    <3> USE <2>4 DEF InsertRejected, CreatePending, Finishes, Throws, Fault
    <3>1. LockHeld'
      OBVIOUS
    <3>2. ExecutionFirst'
      OBVIOUS
    <3>3. Began'
      OBVIOUS
    <3>4. SweepCurrent'
      OBVIOUS
    <3>0. Dead => Dead'
      BY <3>1 DEF Dead
    <3>5. FailedIsDead'
      BY <3>0, SMTT(30) DEF Dead
    <3>6. SucceededIsStored'
      OBVIOUS
    <3> QED BY <3>1, <3>2, <3>3, <3>4, <3>5, <3>6 DEF IInv
  <2>5. CASE Find(w)
    <3> USE <2>5 DEF Find, Sees, Fault
    <3>1. LockHeld'
      OBVIOUS
    <3>2. ExecutionFirst'
      OBVIOUS
    <3>3. Began'
      OBVIOUS
    <3>4. SweepCurrent'
      OBVIOUS
    <3>0. Dead => Dead'
      BY <3>1 DEF Dead
    <3>5. FailedIsDead'
      BY <3>0, SMTT(30) DEF Dead
    <3>6. SucceededIsStored'
      OBVIOUS
    <3> QED BY <3>1, <3>2, <3>3, <3>4, <3>5, <3>6 DEF IInv
  <2>6. CASE Receipt(w)
    <3> USE <2>6 DEF Receipt, Finishes, Throws
    <3>1. LockHeld'
      OBVIOUS
    <3>2. ExecutionFirst'
      OBVIOUS
    <3>3. Began'
      OBVIOUS
    <3>4. SweepCurrent'
      OBVIOUS
    <3>0. Dead => Dead'
      BY <3>1 DEF Dead
    <3>5. FailedIsDead'
      <4>1. job'.term = job.term /\ UNCHANGED event
        OBVIOUS
      <4>2. \A v \in Workers : worker'[v].term = worker[v].term \/ worker'[v].term # "Failed"
        OBVIOUS
      <4> QED BY <3>0, <4>1, <4>2
    <3>6. SucceededIsStored'
      OBVIOUS
    <3> QED BY <3>1, <3>2, <3>3, <3>4, <3>5, <3>6 DEF IInv
  <2>7. CASE Guard(w)
    <3> USE <2>7 DEF Guard, Throws
    <3>1. LockHeld'
      OBVIOUS
    <3>2. ExecutionFirst'
      OBVIOUS
    <3>3. Began'
      OBVIOUS
    <3>4. SweepCurrent'
      OBVIOUS
    <3>0. Dead => Dead'
      BY <3>1 DEF Dead
    <3>5. FailedIsDead'
      BY <3>0, SMTT(30) DEF Dead
    <3>6. SucceededIsStored'
      OBVIOUS
    <3> QED BY <3>1, <3>2, <3>3, <3>4, <3>5, <3>6 DEF IInv
  <2>8. CASE Insert(w)
    <3> USE <2>8 DEF Insert, CreatePending, Throws, Fault
    <3>1. LockHeld'
      OBVIOUS
    <3>2. ExecutionFirst'
      <4>1. event # None => event' = event
        OBVIOUS
      <4>2. event = None => track.begun = 0 /\ job.term # "Succeeded" /\ \A v \in Workers : ~Executes(v)
        OBVIOUS
      <4>3. \A v \in Workers : v # w => worker'[v] = worker[v]
        OBVIOUS
      <4>4. Executes(w)' => worker'[w].pc = "check" /\ event = None /\ event' # None
        <5>1. [outcome |-> "Pending", started |-> FALSE] # None
          BY [outcome |-> "Pending", started |-> FALSE] \in Rows
        <5> QED BY <5>1
      <4>5. worker'[w].pc # "persist"
        OBVIOUS
      <4> QED BY <4>1, <4>2, <4>3, <4>4, <4>5
    <3>3. Began'
      OBVIOUS
    <3>4. SweepCurrent'
      OBVIOUS
    <3>0. Dead => Dead'
      BY <3>1 DEF Dead
    <3>5. FailedIsDead'
      BY <3>0, SMTT(30) DEF Dead
    <3>6. SucceededIsStored'
      OBVIOUS
    <3> QED BY <3>1, <3>2, <3>3, <3>4, <3>5, <3>6 DEF IInv
  <2>9. CASE Existing(w)
    <3> USE <2>9 DEF Existing, Finishes, Throws
    <3>1. LockHeld'
      OBVIOUS
    <3>2. ExecutionFirst'
      OBVIOUS
    <3>3. Began'
      OBVIOUS
    <3>4. SweepCurrent'
      OBVIOUS
    <3>0. Dead => Dead'
      BY <3>1 DEF Dead
    <3>5. FailedIsDead'
      BY <3>0, SMTT(30) DEF Dead
    <3>6. SucceededIsStored'
      OBVIOUS
    <3> QED BY <3>1, <3>2, <3>3, <3>4, <3>5, <3>6 DEF IInv
  <2>10. CASE Check(w)
    <3> USE <2>10 DEF Check, Finishes
    <3>1. LockHeld'
      OBVIOUS
    <3>2. ExecutionFirst'
      OBVIOUS
    <3>3. Began'
      OBVIOUS
    <3>4. SweepCurrent'
      OBVIOUS
    <3>0. Dead => Dead'
      BY <3>1 DEF Dead
    <3>5. FailedIsDead'
      BY <3>0, SMTT(30) DEF Dead
    <3>6. SucceededIsStored'
      OBVIOUS
    <3> QED BY <3>1, <3>2, <3>3, <3>4, <3>5, <3>6 DEF IInv
  <2>11. CASE SetGuard(w)
    <3> USE <2>11 DEF SetGuard, Finishes, Fault
    <3>1. LockHeld'
      OBVIOUS
    <3>2. ExecutionFirst'
      OBVIOUS
    <3>3. Began'
      OBVIOUS
    <3>4. SweepCurrent'
      OBVIOUS
    <3>0. Dead => Dead'
      BY <3>1 DEF Dead
    <3>5. FailedIsDead'
      BY <3>0, SMTT(30) DEF Dead
    <3>6. SucceededIsStored'
      OBVIOUS
    <3> QED BY <3>1, <3>2, <3>3, <3>4, <3>5, <3>6 DEF IInv
  <2>12. CASE MarkStarted(w)
    <3> USE <2>12 DEF MarkStarted, Accepts, Pending, Finishes, Fault
    <3>1. LockHeld'
      OBVIOUS
    <3>2. ExecutionFirst'
      <4>1. event' # None /\ (event.started => event'.started)
        <5>1. event \in Rows
          BY Zenon
        <5>2. event' = event \/ event' = [event EXCEPT !.started = TRUE]
          OBVIOUS
        <5>3. [event EXCEPT !.started = TRUE] \in Rows
          BY <5>1
        <5> QED BY <5>1, <5>2, <5>3
      <4>2. worker'[w].pc \in {"run", "persist"} /\ (worker'[w].pc = "run" => event'.started)
        OBVIOUS
      <4>3. \A v \in Workers : v # w => worker'[v] = worker[v]
        OBVIOUS
      <4> QED BY <4>1, <4>2, <4>3
    <3>3. Began'
      OBVIOUS
    <3>4. SweepCurrent'
      OBVIOUS
    <3>0. Dead => Dead'
      BY <3>1 DEF Dead
    <3>5. FailedIsDead'
      BY <3>0, SMTT(30) DEF Dead
    <3>6. SucceededIsStored'
      OBVIOUS
    <3> QED BY <3>1, <3>2, <3>3, <3>4, <3>5, <3>6 DEF IInv
  <2>13. CASE Run(w)
    <3> USE <2>13 DEF Run, Finishes
    <3>1. LockHeld'
      OBVIOUS
    <3>2. ExecutionFirst'
      OBVIOUS
    <3>3. Began'
      OBVIOUS
    <3>4. SweepCurrent'
      OBVIOUS
    <3>0. Dead => Dead'
      BY <3>1 DEF Dead
    <3>5. FailedIsDead'
      BY <3>0, SMTT(30) DEF Dead
    <3>6. SucceededIsStored'
      OBVIOUS
    <3> QED BY <3>1, <3>2, <3>3, <3>4, <3>5, <3>6 DEF IInv
  <2>14. CASE Export(w)
    BY <2>14, SMTT(30) DEF Dead, Export, Finishes, Fault
  <2>15. CASE Persist(w)
    <3> USE <2>15 DEF Persist, Fault
    <3>1. LockHeld'
      OBVIOUS
    <3>2. ExecutionFirst'
      <4>1. worker[w].term = "Succeeded" => \A v \in Workers : ~Executes(v) /\ (v # w => worker[v].pc #
        "persist")
        <5>1. ASSUME worker[w].term = "Succeeded", NEW v \in Workers, v # w, worker[v].pc = "persist" PROVE
          FALSE
          BY <5>1 DEF Dead
        <5>2. ASSUME worker[w].term = "Succeeded", NEW v \in Workers, Executes(v) PROVE FALSE
          BY <5>2 DEF Dead
        <5> QED BY <5>1, <5>2
      <4>2. job'.term = job.term \/ job'.term = worker[w].term
        OBVIOUS
      <4>3. worker'[w].pc # "persist" /\ ~Executes(w)'
        OBVIOUS
      <4>4. \A v \in Workers : v # w => worker'[v] = worker[v]
        OBVIOUS
      <4> QED BY <4>1, <4>2, <4>3, <4>4
    <3>3. Began'
      OBVIOUS
    <3>4. SweepCurrent'
      OBVIOUS
    <3>0. Dead => Dead'
      BY <3>1 DEF Dead
    <3>5. FailedIsDead'
      BY <3>0, SMTT(30) DEF Dead
    <3>6. SucceededIsStored'
      OBVIOUS
    <3> QED BY <3>1, <3>2, <3>3, <3>4, <3>5, <3>6 DEF IInv
  <2>16. CASE Verify(w)
    <3> USE <2>16 DEF Verify, Publish, Fault
    <3>1. LockHeld'
      OBVIOUS
    <3>2. ExecutionFirst'
      OBVIOUS
    <3>3. Began'
      OBVIOUS
    <3>4. SweepCurrent'
      OBVIOUS
    <3>0. Dead => Dead'
      BY <3>1 DEF Dead
    <3>5. FailedIsDead'
      <4>1. job'.term = job.term /\ UNCHANGED event
        OBVIOUS
      <4>2. \A v \in Workers : worker'[v].term = worker[v].term \/ worker'[v].term # "Failed"
        OBVIOUS
      <4> QED BY <3>0, <4>1, <4>2
    <3>6. SucceededIsStored'
      OBVIOUS
    <3> QED BY <3>1, <3>2, <3>3, <3>4, <3>5, <3>6 DEF IInv
  <2>17. CASE Finalize(w)
    <3> USE <2>17 DEF Finalize, TryFinalize, Pending, Fault
    <3>1. LockHeld'
      OBVIOUS
    <3>2. ExecutionFirst'
      OBVIOUS
    <3>3. Began'
      OBVIOUS
    <3>4. SweepCurrent'
      OBVIOUS
    <3>0. Dead => Dead'
      BY <3>1 DEF Dead
    <3>5. FailedIsDead'
      BY <3>0, SMTT(30) DEF Dead
    <3>6. SucceededIsStored'
      OBVIOUS
    <3> QED BY <3>1, <3>2, <3>3, <3>4, <3>5, <3>6 DEF IInv
  <2>18. CASE Reported(w)
    BY <2>18 DEF Dead, Reported, Publish
  <2>19. CASE Release(w)
    BY <2>19 DEF Dead, Release, Unlock
  <2>20. CASE Ended(w)
    BY <2>20 DEF Dead, Ended, Fault
  <2>21. CASE Reread(w)
    <3> USE <2>21 DEF Reread, Sees, Leaves, Unlock, Fault
    <3>1. LockHeld'
      OBVIOUS
    <3>2. ExecutionFirst'
      OBVIOUS
    <3>3. Began'
      OBVIOUS
    <3>4. SweepCurrent'
      <4>1. worker'[w].pc = "evidence" => event # None /\ worker'[w].seen = event
        BY DEF Pending
      <4>2. \A v \in Workers : v # w => worker'[v] = worker[v]
        OBVIOUS
      <4> QED BY <4>1, <4>2
    <3>0. Dead => Dead'
      BY <3>1 DEF Dead
    <3>5. FailedIsDead'
      BY <3>0, SMTT(30) DEF Dead
    <3>6. SucceededIsStored'
      OBVIOUS
    <3> QED BY <3>1, <3>2, <3>3, <3>4, <3>5, <3>6 DEF IInv
  <2>22. CASE ReadJob(w)
    <3> USE <2>22 DEF ReadJob, Closed, HasExactCompletion, Evidence, Uncertain, Finishes, Leaves,
      Unlock, Fault
    <3>1. LockHeld'
      OBVIOUS
    <3>2. ExecutionFirst'
      OBVIOUS
    <3>3. Began'
      OBVIOUS
    <3>4. SweepCurrent'
      OBVIOUS
    <3>0. Dead => Dead'
      BY <3>1 DEF Dead
    <3>5. FailedIsDead'
      BY <3>0, SMTT(30) DEF Dead
    <3>6. SucceededIsStored'
      OBVIOUS
    <3> QED BY <3>1, <3>2, <3>3, <3>4, <3>5, <3>6 DEF IInv
  <2>23. CASE Settle(w)
    <3> USE <2>23 DEF Settle, TryFinalize, Pending, Leaves, Unlock, Fault
    <3>1. LockHeld'
      OBVIOUS
    <3>2. ExecutionFirst'
      OBVIOUS
    <3>3. Began'
      OBVIOUS
    <3>4. SweepCurrent'
      OBVIOUS
    <3>0. Dead => Dead'
      BY <3>1 DEF Dead
    <3>5. FailedIsDead'
      BY <3>0, SMTT(30) DEF Dead
    <3>6. SucceededIsStored'
      OBVIOUS
    <3> QED BY <3>1, <3>2, <3>3, <3>4, <3>5, <3>6 DEF IInv
  <2> QED BY <1>1, <2>1, <2>2, <2>3, <2>4, <2>5, <2>6, <2>7, <2>8, <2>9, <2>10, <2>11, <2>12, <2>13,
    <2>14, <2>15, <2>16, <2>17, <2>18, <2>19, <2>20, <2>21, <2>22, <2>23 DEF Step
<1>2. ASSUME NEW w \in Workers, Fetch(w) PROVE IInv'
  BY <1>2 DEF Dead, Fetch, Working, Fault
<1>3. ASSUME NEW w \in Workers, Sweep(w) PROVE IInv'
  BY <1>3 DEF Dead, Sweep, Pending
<1>4. ASSUME NEW w \in Workers, Die(w) PROVE IInv'
  BY <1>4 DEF Dead, Die, Fault, Leaves, Unlock
<1>5. CASE Dashboard
  BY <1>5 DEF Dead, Dashboard, Call, Running
<1>6. CASE ApiLocks \/ ApiUnlocks
  BY <1>6 DEF Dead, ApiLocks, ApiUnlocks, Call
<1>7. CASE UNCHANGED vars
  BY <1>7 DEF Dead, vars
<1> QED BY <1>1, <1>2, <1>3, <1>4, <1>5, <1>6, <1>7 DEF Next

-----------------------------------------------------------------------------
LEMMA InvInit == Init => IInv
BY HistoryAssumption DEF Init, IInv, Typed, TypeOK, Decided, LockHeld, ExecutionFirst, Began,
  SweepCurrent, FailedIsDead, SucceededIsStored, Dead, Executes, Locked, Executing, Idle,
  Rows, Jobs, Results, Places, States, Running

LEMMA Invariance == Spec => []IInv
BY InvInit, InvNext, PTL DEF Spec

\* Types, in every behaviour.
THEOREM HistoryTyped == Spec => []TypeOK
<1>1. IInv => TypeOK
  BY DEF IInv, Typed
<1> QED BY <1>1, Invariance, PTL

\* However often the job is taken, requeued, or run by two workers at once, and whichever writes
\* are lost, the export of an operation begins at most once, and only after its row says so.
THEOREM ExportsOnce == Spec => []ExportedOnce
<1>1. IInv => ExportedOnce
  BY DEF IInv, Began, ExportedOnce
<1> QED BY <1>1, Invariance, PTL

\* What the row says of the outcome is what happened.
THEOREM OutcomesTrue == Spec => []OutcomeTrue
<1>1. IInv => OutcomeTrue
  BY DEF IInv, FailedIsDead, SucceededIsStored, Dead, OutcomeTrue
<1> QED BY <1>1, Invariance, PTL

\* A job that shows success has exported.
THEOREM SuccessesTrue == Spec => []SuccessTrue
<1>1. IInv => SuccessTrue
  BY DEF IInv, SucceededIsStored, SuccessTrue
<1> QED BY <1>1, Invariance, PTL

\* A terminal row is never changed, and a receipt of success never replaced.
THEOREM KeepsEvidence == Spec => EvidenceKept
<1> DEFINE Kept == /\ event # None /\ ~Pending => event' = event
                   /\ job.term = "Succeeded" => job'.term = "Succeeded"
<1>1. ASSUME IInv, [Next]_vars PROVE [Kept]_vars
  <2> USE <1>1 DEF Goes, At
  <2>0. job \in Jobs /\ \A w \in Workers : worker[w].pc = "persist" => job.term # "Succeeded"
    BY DEF IInv, Typed, TypeOK, ExecutionFirst
  <2>1. ASSUME NEW w \in Workers, Step(w) PROVE Kept
    <3>1. CASE TryAcquire(w)
      BY <3>1, <2>0 DEF Jobs, TryAcquire, Pending
    <3>2. CASE ReadBusy(w)
      BY <3>2, <2>0 DEF Jobs, ReadBusy, Throws, Pending
    <3>3. CASE ReadGuardBusy(w)
      BY <3>3, <2>0 DEF Jobs, ReadGuardBusy, Throws, Pending
    <3>4. CASE InsertRejected(w)
      BY <3>4, <2>0 DEF Jobs, InsertRejected, CreatePending, Finishes, Throws, Pending
    <3>5. CASE Find(w)
      BY <3>5, <2>0 DEF Jobs, Find, Sees, Pending
    <3>6. CASE Receipt(w)
      BY <3>6, <2>0 DEF Jobs, Receipt, Finishes, Throws, Pending
    <3>7. CASE Guard(w)
      BY <3>7, <2>0 DEF Jobs, Guard, Throws, Pending
    <3>8. CASE Insert(w)
      BY <3>8, <2>0 DEF Jobs, Insert, CreatePending, Throws, Pending
    <3>9. CASE Existing(w)
      BY <3>9, <2>0 DEF Jobs, Existing, Finishes, Throws, Pending
    <3>10. CASE Check(w)
      BY <3>10, <2>0 DEF Jobs, Check, Finishes, Pending
    <3>11. CASE SetGuard(w)
      BY <3>11, <2>0 DEF Jobs, SetGuard, Finishes, Pending
    <3>12. CASE MarkStarted(w)
      BY <3>12, <2>0 DEF Jobs, MarkStarted, Accepts, Pending, Finishes
    <3>13. CASE Run(w)
      BY <3>13, <2>0 DEF Jobs, Run, Finishes, Pending
    <3>14. CASE Export(w)
      BY <3>14, <2>0 DEF Jobs, Export, Finishes, Pending
    <3>15. CASE Persist(w)
      BY <3>15, <2>0 DEF Jobs, Persist, Pending
    <3>16. CASE Verify(w)
      BY <3>16, <2>0 DEF Jobs, Verify, Publish, Pending
    <3>17. CASE Finalize(w)
      BY <3>17, <2>0 DEF Jobs, Finalize, TryFinalize, Pending
    <3>18. CASE Reported(w)
      BY <3>18, <2>0 DEF Jobs, Reported, Publish, Pending
    <3>19. CASE Release(w)
      BY <3>19, <2>0 DEF Jobs, Release, Unlock, Pending
    <3>20. CASE Ended(w)
      BY <3>20, <2>0 DEF Jobs, Ended, Pending
    <3>21. CASE Reread(w)
      BY <3>21, <2>0 DEF Jobs, Reread, Sees, Leaves, Unlock, Pending
    <3>22. CASE ReadJob(w)
      BY <3>22, <2>0 DEF Jobs, ReadJob, Closed, HasExactCompletion, Evidence, Uncertain, Finishes, Leaves,
        Unlock, Pending
    <3>23. CASE Settle(w)
      BY <3>23, <2>0 DEF Jobs, Settle, TryFinalize, Pending, Leaves, Unlock
    <3> QED BY <2>1, <3>1, <3>2, <3>3, <3>4, <3>5, <3>6, <3>7, <3>8, <3>9, <3>10, <3>11, <3>12, <3>13,
      <3>14, <3>15, <3>16, <3>17, <3>18, <3>19, <3>20, <3>21, <3>22, <3>23 DEF Step
  <2>2. ASSUME NEW w \in Workers, Fetch(w) \/ Sweep(w) \/ Die(w) PROVE Kept
    BY <2>2, <2>0 DEF Fetch, Sweep, Die, Jobs
  <2>3. CASE Dashboard \/ ApiLocks \/ ApiUnlocks
    BY <2>3, <2>0 DEF Dashboard, ApiLocks, ApiUnlocks, Jobs
  <2> QED BY <2>1, <2>2, <2>3 DEF Next
<1> QED BY <1>1, Invariance, PTL DEF Spec, EvidenceKept
=============================================================================
