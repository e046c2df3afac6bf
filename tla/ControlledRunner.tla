-------------------------- MODULE ControlledRunner --------------------------
(***************************************************************************)
(* The controlled pilot runner (pilot-runner/app.py): a service of its own *)
(* that executes one fixed command for every accepted request.  A request  *)
(* is known by its idempotency key; its row in the operation store is      *)
(* claimed once, admitted if it gets a global slot and then the lock of    *)
(* its environment, executed by a thread of the pool, recorded, written to *)
(* the audit ledger, and only then gives slot and lock back.               *)
(*                                                                         *)
(* The store survives a restart; threads, locks, slots and the commands    *)
(* they started do not.                                                    *)
(***************************************************************************)
EXTENDS Integers, FiniteSets

CONSTANTS
    Key,            \* idempotency keys, one per execution of the backend
    Env,            \* environments of the configuration
    MaxConcurrent,  \* limits.max_concurrent
    MaxFaults,      \* bound: crashes, restarts, lost messages, ledger failures
    None

ASSUME RunnerAssumption ==
    /\ MaxConcurrent \in Nat /\ MaxFaults \in Nat
    /\ None \notin Key \cup Env

VARIABLES
    op,             \* the operation store, with the thread working on a row
    envLock,        \* who holds the lock of an environment
    slots,          \* free global slots
    auditBroken,    \* the audit ledger failed once: no new submissions
    faults          \* faults so far

runnerVars == <<op, envLock, slots, auditBroken, faults>>

\* "failed" stands for failed, timed_out, rejected and interrupted, which the
\* service shows alike.
OpStatus == {"none", "accepted", "running", "succeeded", "failed"}

\* What the thread of an operation is about to do.
Phase == {"idle", "admitting", "slotted", "locked", "executing", "ended", "recorded"}

Operation ==
    [status : OpStatus, phase : Phase, env : Env \cup {None},
     exit : {"none", "zero", "other"}, starts : Nat]

NoOperation ==
    [status |-> "none", phase |-> "idle", env |-> None, exit |-> "none", starts |-> 0]

RunnerTypeOK ==
    /\ op \in [Key -> Operation]
    /\ envLock \in [Env -> Key \cup {None}]
    /\ slots \in 0..MaxConcurrent
    /\ auditBroken \in BOOLEAN
    /\ faults \in 0..MaxFaults

RunnerInit ==
    /\ op = [k \in Key |-> NoOperation]
    /\ envLock = [e \in Env |-> None]
    /\ slots = MaxConcurrent
    /\ auditBroken = FALSE
    /\ faults = 0

-----------------------------------------------------------------------------
(* submit *)

Fault ==
    /\ faults < MaxFaults
    /\ faults' = faults + 1

\* AuditLog.append, on the way of an operation: a failure closes the service
\* to new submissions.
Audited == UNCHANGED <<auditBroken, faults>>
AuditLost == auditBroken' = TRUE /\ Fault

\* OperationStore.claim: the first request under a key inserts its row, every
\* later one is answered from it.
Claim_AnyTime(k, e) ==
    /\ ~auditBroken
    /\ op[k].phase = "idle"
    /\ op' = [op EXCEPT ![k].status = "accepted", ![k].phase = "admitting", ![k].env = e]
    /\ UNCHANGED <<envLock, slots, auditBroken, faults>>

Claim(k, e) ==
    /\ ~auditBroken
    /\ op[k].status = "none"
    /\ op' = [op EXCEPT ![k].status = "accepted", ![k].phase = "admitting", ![k].env = e]
    /\ UNCHANGED <<envLock, slots, auditBroken, faults>>

\* slots.acquire: a request that gets a slot keeps it while it asks for the lock.
TakeSlot(k) ==
    /\ op[k].phase = "admitting"
    /\ slots > 0
    /\ op' = [op EXCEPT ![k].phase = "slotted"]
    /\ slots' = slots - 1
    /\ UNCHANGED <<envLock, auditBroken, faults>>

\* No slot, or the environment is busy: rejected for good under this key.
Reject(k) ==
    /\ \/ op[k].phase = "admitting" /\ slots = 0
       \/ op[k].phase = "slotted" /\ envLock[op[k].env] # None
    /\ op' = [op EXCEPT ![k].status = "failed", ![k].phase = "idle"]
    /\ slots' = IF op[k].phase = "slotted" THEN slots + 1 ELSE slots
    /\ Audited \/ AuditLost
    /\ UNCHANGED envLock

TakeLock_Unlocked(k) ==
    /\ op[k].phase = "slotted"
    /\ op' = [op EXCEPT ![k].status = "running", ![k].phase = "locked"]
    /\ envLock' = [envLock EXCEPT ![op[k].env] = k]
    /\ UNCHANGED <<slots, auditBroken, faults>>

\* environment_lock.acquire, OperationStore.mark_running: the row says running
\* before the command does.
TakeLock(k) ==
    /\ op[k].phase = "slotted"
    /\ envLock[op[k].env] = None
    /\ op' = [op EXCEPT ![k].status = "running", ![k].phase = "locked"]
    /\ envLock' = [envLock EXCEPT ![op[k].env] = k]
    /\ UNCHANGED <<slots, auditBroken, faults>>

\* The start is in the ledger and the pool runs the command.
Start(k) ==
    /\ op[k].phase = "locked"
    /\ op' = [op EXCEPT ![k].phase = "executing", ![k].starts = @ + 1]
    /\ Audited
    /\ UNCHANGED <<envLock, slots>>

StartFails_GoesOn(k) ==
    /\ op[k].phase = "locked"
    /\ op' = [op EXCEPT ![k].phase = "executing", ![k].starts = @ + 1]
    /\ slots' = slots + 1
    /\ envLock' = [envLock EXCEPT ![op[k].env] = None]
    /\ Fault
    /\ auditBroken' \in {auditBroken, TRUE}

\* The start cannot be written to the ledger, or the pool does not take the
\* command: slot and lock are given back and the row is closed.
StartFails(k) ==
    /\ op[k].phase = "locked"
    /\ op' = [op EXCEPT ![k].status = "failed", ![k].phase = "idle"]
    /\ slots' = slots + 1
    /\ envLock' = [envLock EXCEPT ![op[k].env] = None]
    /\ Fault
    /\ auditBroken' \in {auditBroken, TRUE}

-----------------------------------------------------------------------------
(* _execute *)

\* _run_command, _run_performance: the command exits, or is killed with its
\* process group when its time is over.
CommandEnds(k) ==
    /\ op[k].phase = "executing"
    /\ \E x \in {"zero", "other"} :
          op' = [op EXCEPT ![k].phase = "ended", ![k].exit = x]
    /\ UNCHANGED <<envLock, slots, auditBroken, faults>>

Record_Optimistic(k) ==
    /\ op[k].phase = "ended"
    /\ \E st \in {"failed", "succeeded"} :
          op' = [op EXCEPT ![k].status = st, ![k].phase = "recorded"]
    /\ UNCHANGED <<envLock, slots, auditBroken, faults>>

\* OperationStore.finish: only exit code zero can be a success, and only if the
\* metrics are there and the evidence file could be written.
Record(k) ==
    /\ op[k].phase = "ended"
    /\ \E st \in IF op[k].exit = "zero" THEN {"succeeded", "failed"} ELSE {"failed"} :
          op' = [op EXCEPT ![k].status = st, ![k].phase = "recorded"]
    /\ UNCHANGED <<envLock, slots, auditBroken, faults>>

\* The end is written to the ledger; if that fails the result that was already
\* stored is replaced by a failure.  Slot and lock are given back.
AuditEnd(k) ==
    /\ op[k].phase = "recorded"
    /\ \/ op' = [op EXCEPT ![k].phase = "idle"] /\ Audited
       \/ op' = [op EXCEPT ![k].phase = "idle", ![k].status = "failed"] /\ AuditLost
    /\ slots' = slots + 1
    /\ envLock' = [envLock EXCEPT ![op[k].env] = None]

\* A new process: running rows are closed as interrupted, an accepted row stays
\* as it is, and nothing is held.
Restart ==
    /\ op' = [k \in Key |->
                [op[k] EXCEPT !.phase = "idle",
                              !.status = IF @ = "running" THEN "failed" ELSE @]]
    /\ envLock' = [e \in Env |-> None]
    /\ slots' = MaxConcurrent
    /\ auditBroken' = FALSE
    /\ Fault

OperationStep(k) ==
    \/ TakeSlot(k) \/ Reject(k) \/ TakeLock(k) \/ Start(k) \/ StartFails(k)
    \/ CommandEnds(k) \/ Record(k) \/ AuditEnd(k)

-----------------------------------------------------------------------------
Executing(k) == op[k].phase = "executing"

\* However often a request is submitted, and whatever is lost or restarted on
\* the way, its command is started at most once (the store is keyed by the
\* Idempotency-Key and its row outlives the process).
CommandOnce == \A k \in Key : op[k].starts <= 1

\* Two commands never run in one environment at once (the lock of the
\* environment is held from before the start to the end of the thread).
EnvironmentExclusive ==
    \A k, l \in Key :
        Executing(k) /\ Executing(l) /\ op[k].env = op[l].env => k = l
=============================================================================
