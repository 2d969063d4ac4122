------------------------ MODULE CoalescingDpc_proofs ------------------------
(***************************************************************************)
(* What the enqueue gate guarantees for any number of clients and jobs.    *)
(***************************************************************************)
EXTENDS CoalescingDpc, TLAPS

\* Every variable keeps its type (the initial state and every step).
THEOREM TypeCorrect == Spec => []TypeOK
<1>1. Init => TypeOK
  BY DEF Init, TypeOK, Active, Terminal, Removed
<1>2. TypeOK /\ [Next]_vars => TypeOK'
  <2> SUFFICES ASSUME TypeOK, [Next]_vars PROVE TypeOK'
    OBVIOUS
  <2> USE DEF TypeOK, Active, Terminal, Removed, gateVars
  <2>1. ASSUME NEW c \in Clients, Reserve(c) PROVE TypeOK'
    BY <2>1 DEF Reserve
  <2>2. ASSUME NEW c \in Clients, CreateJob(c) PROVE TypeOK'
    BY <2>2 DEF CreateJob
  <2>3. ASSUME NEW c \in Clients, Confirm(c) PROVE TypeOK'
    BY <2>3 DEF Confirm
  <2>4. ASSUME NEW c \in Clients, ClientCrash(c) PROVE TypeOK'
    BY <2>4 DEF ClientCrash
  <2>5. ASSUME NEW j \in Jobs, Fetch(j) PROVE TypeOK'
    BY <2>5 DEF Fetch
  <2>6. ASSUME NEW j \in Jobs, Perform(j) PROVE TypeOK'
    BY <2>6 DEF Perform
  <2>7. ASSUME NEW j \in Jobs, Finish(j) PROVE TypeOK'
    BY <2>7 DEF Finish
  <2>8. ASSUME NEW j \in Jobs, WorkerCrash(j) PROVE TypeOK'
    BY <2>8 DEF WorkerCrash
  <2>9. CASE Expire
    BY <2>9 DEF Expire
  <2>10. CASE UNCHANGED vars
    BY <2>10 DEF vars
  <2>11. ASSUME NEW c \in Clients, CreateFails(c) PROVE TypeOK'
    BY <2>11 DEF CreateFails
  <2>12. ASSUME NEW j \in Jobs, Delete(j) PROVE TypeOK'
    BY <2>12 DEF Delete
  <2> QED
    BY <2>1, <2>2, <2>3, <2>4, <2>5, <2>6, <2>7, <2>8, <2>9, <2>10, <2>11, <2>12
       DEF Next, Enqueue
<1> QED
  BY <1>1, <1>2, PTL DEF Spec

\* A queued or running job that owns the gate is never robbed of it: only its
\* own OnPerformed clears the field, whatever fails elsewhere.
THEOREM OwnerKept == Spec => OwnerKeepsGate
<1> DEFINE Kept == \A j \in Jobs :
        owner = j /\ job[j] \in {"Enqueued", "Processing"} /\ owner' # j
            => job'[j] = "Performed"
<1>1. TypeOK /\ [Next]_vars => Kept
  <2> SUFFICES ASSUME TypeOK, [Next]_vars,
                      NEW j \in Jobs, owner = j,
                      job[j] \in {"Enqueued", "Processing"}, owner' # j
               PROVE job'[j] = "Performed"
    OBVIOUS
  <2>1. ASSUME NEW c \in Clients, Reserve(c) PROVE FALSE
    BY <2>1 DEF Reserve, GateCloses, Active
  <2>2. ASSUME NEW c \in Clients, Confirm(c) \/ CreateFails(c) PROVE FALSE
    BY <2>2, GateAssumption DEF Confirm, CreateFails
  <2>3. ASSUME NEW i \in Jobs, Perform(i) PROVE job'[j] = "Performed"
    BY <2>3 DEF Perform, TypeOK
  <2>4. ASSUME NEW c \in Clients, CreateJob(c) \/ ClientCrash(c) PROVE FALSE
    BY <2>4 DEF CreateJob, ClientCrash, gateVars
  <2>5. ASSUME NEW i \in Jobs, Fetch(i) \/ Finish(i) \/ WorkerCrash(i) \/ Delete(i)
        PROVE FALSE
    BY <2>5 DEF Fetch, Finish, WorkerCrash, Delete
  <2>6. CASE Expire \/ UNCHANGED vars
    BY <2>6 DEF Expire, vars
  <2> QED
    BY <2>1, <2>2, <2>3, <2>4, <2>5, <2>6 DEF Next, Enqueue
<1>2. TypeOK /\ [Next]_vars => [Kept]_vars
  BY <1>1
<1> QED
  BY <1>2, TypeCorrect, PTL DEF Spec, OwnerKeepsGate

-----------------------------------------------------------------------------
(* Without faults a client's reservation, its ticket and the job it has     *)
(* created hand the gate on to one another without a gap.                   *)

GateInv ==
    /\ TypeOK
    /\ ~stale
    /\ \A c \in Clients : client[c] # "idle" => owner = c
    /\ owner \in Clients => client[owner] # "idle"
    /\ \A j \in Jobs : job[j] # "Aborting"
    /\ \A j \in Jobs : Uncompleted(j) =>
        \/ owner = j
        \/ \E c \in Clients : client[c] = "created" /\ ticket[c] = j

\* Without faults (a worker that dies inside the scan is none, and neither is a
\* job record that cannot be written) and with nobody deleting jobs, the gate keeps
\* its promise for any number of clients and jobs: one DPC job at most is
\* queued or running.
THEOREM QuietGate == ASSUME Faults = {} PROVE Spec => []AtMostOneDpc
<1>1. Init => GateInv
  BY GateAssumption DEF Init, GateInv, TypeOK, Uncompleted, Active, Terminal
<1>2. GateInv /\ TypeOK' /\ [Next]_vars => GateInv'
  <2> SUFFICES ASSUME GateInv, TypeOK', [Next]_vars PROVE GateInv'
    OBVIOUS
  <2> USE GateAssumption DEF GateInv, TypeOK, Uncompleted
  <2>1. ASSUME NEW c \in Clients, Reserve(c) PROVE GateInv'
    BY <2>1 DEF Reserve, GateCloses, Active
  <2>2. ASSUME NEW c \in Clients, CreateJob(c) PROVE GateInv'
    BY <2>2 DEF CreateJob, gateVars
  <2>3. ASSUME NEW c \in Clients, Confirm(c) PROVE GateInv'
    BY <2>3 DEF Confirm
  <2>4. ASSUME NEW j \in Jobs, Fetch(j) \/ WorkerCrash(j) PROVE GateInv'
    BY <2>4 DEF Fetch, WorkerCrash
  <2>5. ASSUME NEW j \in Jobs, Perform(j) PROVE GateInv'
    BY <2>5 DEF Perform
  <2>6. ASSUME NEW j \in Jobs, Finish(j) PROVE GateInv'
    BY <2>6 DEF Finish, Terminal
  <2>7. ASSUME NEW c \in Clients, ClientCrash(c) PROVE FALSE
    BY <2>7 DEF ClientCrash
  <2>10. ASSUME NEW j \in Jobs, Delete(j) PROVE FALSE
    BY <2>10 DEF Delete
  <2>11. ASSUME NEW c \in Clients, CreateFails(c) PROVE GateInv'
    BY <2>11 DEF CreateFails
  <2>8. CASE Expire
    BY <2>8 DEF Expire
  <2>9. CASE UNCHANGED vars
    BY <2>9 DEF vars
  <2> QED
    BY <2>1, <2>2, <2>3, <2>4, <2>5, <2>6, <2>7, <2>8, <2>9, <2>10, <2>11 DEF Next, Enqueue
<1>3. GateInv => AtMostOneDpc
  BY GateAssumption DEF GateInv, TypeOK, Uncompleted, AtMostOneDpc
<1> QED
  BY <1>1, <1>2, <1>3, TypeCorrect, PTL DEF Spec
=============================================================================
