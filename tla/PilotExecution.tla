--------------------------- MODULE PilotExecution ---------------------------
(***************************************************************************)
(* Governed execution of approved pilot work (apps/pilot/execution.py,     *)
(* tasks.py, execution_views.py and the release transitions of             *)
(* services.py), composed with the controlled runner that does the work.   *)
(*                                                                         *)
(* A web request turns an approved release plan or performance run into    *)
(* one execution row; Celery workers submit it to the runner, poll it and  *)
(* write the verdict to the execution and to its source.  Messages may be  *)
(* delivered again or lost, workers and runner may die, answers may be     *)
(* lost or late, and an operator works on the same plan meanwhile.         *)
(***************************************************************************)
EXTENDS ControlledRunner

CONSTANTS
    Release,        \* release plans
    Performance,    \* performance runs
    EnvironmentOf,  \* the environment of each of them
    Worker,         \* Celery workers
    MaxVersion,     \* bound: operators act on versions below it
    Operators,      \* what operators do besides executing, a set of names
    Live            \* the sets of sources that may be approved at first

Source == Release \cup Performance

ASSUME PilotAssumption ==
    /\ Release \cap Performance = {}
    /\ EnvironmentOf \in [Source -> Env]
    /\ None \notin Source
    /\ MaxVersion \in Nat
    /\ Live \subseteq SUBSET Source

VARIABLES
    source,     \* release plans and performance runs
    web,        \* the HTTP request that carries a key
    exec,       \* PilotExecution rows, by idempotency key
    broker,     \* Celery messages
    worker      \* deliveries being handled

hubVars == <<source, web, exec, broker, worker>>
vars == <<hubVars, runnerVars>>

SourceStatus ==
    {"approved", "scheduled", "running", "success", "failed",
     "rollback_required", "rolled_back", "manual_required", "cancelled"}

SourceState ==
    [status : SourceStatus, context : {"", "release", "rollback"},
     rollbackApproved : BOOLEAN, version : Nat]

Kind == {"deploy", "rollback", "performance"}

KindsOf(s) == IF s \in Release THEN {"deploy", "rollback"} ELSE {"performance"}

\* A web request: it reads the source, then looks for active executions, then
\* writes, each at its own moment; seen is the version it has read.
Request ==
    [pc : {"new", "read", "checked", "enqueue", "done"},
     source : Source \cup {None}, kind : Kind, seen : Nat]

Active == {"queued", "running"}
Terminal == {"succeeded", "failed", "manual_required"}

\* known: runner_job_id is set; overdue: runner_deadline_at is over.  What a
\* finished row keeps of them is left out.
Execution ==
    [status : {"none"} \cup Active \cup Terminal, source : Source \cup {None},
     kind : Kind, known : BOOLEAN, overdue : BOOLEAN]

\* A delivery talks to the runner, or holds its answer, or is about to retry.
Answer == {"queued", "running", "succeeded", "failed"}

Delivery ==
    [pc : {"idle", "sending", "retrying"} \cup Answer,
     key : Key \cup {None}, known : BOOLEAN]

Idle == [pc |-> "idle", key |-> None, known |-> FALSE]
NoRequest == [pc |-> "new", source |-> None, kind |-> "deploy", seen |-> 0]
NoExecution == [status |-> "none", source |-> None, kind |-> "deploy",
                known |-> FALSE, overdue |-> FALSE]

SourceAt(status, context, approved) ==
    [status |-> status, context |-> context, rollbackApproved |-> approved, version |-> 1]

\* Where earlier work has left a plan: scheduled, waiting for its rollback, or for
\* a person in the middle of the release or of the rollback.
PlanAtRest ==
    {SourceAt("scheduled", "", FALSE), SourceAt("rollback_required", "", FALSE),
     SourceAt("manual_required", "release", FALSE),
     SourceAt("manual_required", "rollback", TRUE)}

\* Such a plan, a performance run that was approved, or one that was cancelled.
NewSource(s, live, plan) ==
    CASE s \notin live -> SourceAt("cancelled", "", FALSE)
      [] s \in live \cap Release -> plan
      [] OTHER -> SourceAt("approved", "", FALSE)

TypeOK ==
    /\ RunnerTypeOK
    /\ source \in [Source -> SourceState]
    /\ web \in [Key -> Request]
    /\ exec \in [Key -> Execution]
    /\ broker \subseteq Key
    /\ worker \in [Worker -> Delivery]
    /\ \A k \in Key :
          /\ exec[k].status # "none" => exec[k].source \in Source
          /\ web[k].pc \in {"read", "checked", "enqueue"} => web[k].source \in Source
          /\ web[k].pc = "enqueue" => exec[k].status # "none"
          /\ op[k].phase # "idle" => op[k].env \in Env
    /\ \A w \in Worker :
          worker[w].pc # "idle" => worker[w].key \in Key /\ exec[worker[w].key].status # "none"
    /\ \A k \in broker : exec[k].status # "none"

Init ==
    /\ RunnerInit
    /\ \E live \in Live, plan \in PlanAtRest :
          source = [s \in Source |-> NewSource(s, live, plan)]
    /\ web = [k \in Key |-> NoRequest]
    /\ exec = [k \in Key |-> NoExecution]
    /\ broker = {}
    /\ worker = [w \in Worker |-> Idle]

-----------------------------------------------------------------------------
(* The verdict of an execution, and what it does to the source. *)

ReleaseAfter(kind, target) ==
    CASE target = "succeeded" /\ kind = "deploy" -> [status |-> "success", context |-> ""]
      [] target = "succeeded" /\ kind = "rollback" -> [status |-> "rolled_back", context |-> ""]
      [] OTHER -> [status |-> "manual_required",
                   context |-> IF kind = "deploy" THEN "release" ELSE "rollback"]

PerformanceAfter(target) ==
    [status |-> CASE target = "succeeded" -> "success"
                  [] target = "manual_required" -> "manual_required"
                  [] OTHER -> "failed",
     context |-> ""]

\* _update_performance, _update_release: the status is written whatever the
\* source has become since.
SourceAfter(k, target) ==
    LET s == exec[k].source
        a == IF exec[k].kind = "performance" THEN PerformanceAfter(target)
                                             ELSE ReleaseAfter(exec[k].kind, target)
    IN  [source EXCEPT ![s].status = a.status, ![s].context = a.context,
                       ![s].version = @ + 1]

Verdict(k, target) ==
    /\ exec' = [exec EXCEPT ![k].status = target, ![k].known = FALSE, ![k].overdue = FALSE]
    /\ source' = SourceAfter(k, target)

\* _finish_execution: a second verdict is ignored.  The metrics of a performance
\* run may turn its success into a failure, and the success of a deployment of
\* another candidate than the approved one is left to a person.
Finish(k, target) ==
    IF exec[k].status \in Terminal
    THEN UNCHANGED <<exec, source>>
    ELSE \/ Verdict(k, target)
         \/ exec[k].kind = "performance" /\ target = "succeeded" /\ Verdict(k, "failed")
         \/ exec[k].kind = "deploy" /\ target = "succeeded" /\ Verdict(k, "manual_required")

-----------------------------------------------------------------------------
(* The web request: _ExecutionEndpoint.post and create_pilot_execution. *)

\* _validate_source_and_transition, on the source as the request has read it.
Executable(s, kind) ==
    CASE kind = "deploy" -> source[s].status = "scheduled"
      [] kind = "rollback" -> source[s].status = "rollback_required" /\ source[s].rollbackApproved
      [] kind = "performance" -> source[s].status = "approved"

\* The view loads the source without a lock.
ReadSource(k, s, kind) ==
    /\ web[k].pc = "new"
    /\ kind \in KindsOf(s)
    /\ Executable(s, kind)
    /\ web' = [web EXCEPT ![k] = [pc |-> "read", source |-> s, kind |-> kind,
                                  seen |-> source[s].version]]
    /\ UNCHANGED <<source, exec, broker, worker, runnerVars>>

\* No active execution of this kind for this source, in the snapshot.
CheckActive(k) ==
    /\ web[k].pc = "read"
    /\ ~\E l \in Key : /\ exec[l].status \in Active
                       /\ exec[l].source = web[k].source
                       /\ exec[l].kind = web[k].kind
    /\ web' = [web EXCEPT ![k].pc = "checked"]
    /\ UNCHANGED <<source, exec, broker, worker, runnerVars>>

\* The row is written, and for a deployment the status and version that follow
\* from what was read.  A second request under the same key finds this row, or
\* fails on its unique constraint, and changes nothing.
CreateExecution(k) ==
    LET r == web[k]
    IN  /\ r.pc = "checked"
        /\ exec' = [exec EXCEPT ![k] = [status |-> "queued", source |-> r.source,
                                        kind |-> r.kind, known |-> FALSE,
                                        overdue |-> FALSE]]
        /\ source' = IF r.kind = "deploy"
                     THEN [source EXCEPT ![r.source].status = "running",
                                         ![r.source].version = r.seen + 1]
                     ELSE source
        /\ web' = [web EXCEPT ![k].pc = "enqueue"]
        /\ UNCHANGED <<broker, worker, runnerVars>>

\* The request is answered and forgotten.
Answered(k) == web' = [web EXCEPT ![k] = [NoRequest EXCEPT !.pc = "done"]]

\* _enqueue, after the commit.
Enqueue(k) ==
    /\ web[k].pc = "enqueue"
    /\ broker' = broker \cup {k}
    /\ Answered(k)
    /\ UNCHANGED <<source, exec, worker, runnerVars>>

QueueUnavailable(k) ==
    /\ web[k].pc = "enqueue"
    /\ Finish(k, "failed")
    /\ Answered(k)
    /\ UNCHANGED <<broker, worker, runnerVars>>

\* The web process dies between the commit and the publication.
WebCrash(k) ==
    /\ web[k].pc = "enqueue"
    /\ Fault
    /\ Answered(k)
    /\ UNCHANGED <<source, exec, broker, worker, op, envLock, slots, auditBroken>>

-----------------------------------------------------------------------------
(* The worker: execute_pilot_execution and run_pilot_execution. *)

\* The delivery of a finished execution ends at once; that of an execution past
\* its deadline asks for a person.
Ignore(k) ==
    /\ k \in broker
    /\ exec[k].status \in Terminal
    /\ broker' = broker \ {k}
    /\ UNCHANGED <<source, web, exec, worker, runnerVars>>

Overdue(k) ==
    /\ k \in broker
    /\ exec[k].status = "running" /\ exec[k].overdue
    /\ Finish(k, "manual_required")
    /\ broker' = broker \ {k}
    /\ UNCHANGED <<web, worker, runnerVars>>

\* A queued row gets its deadline, a running one is polled.  The row is read
\* again for the request right after.
Take(w, k) ==
    /\ worker[w].pc = "idle"
    /\ k \in broker
    /\ exec[k].status \in Active
    /\ ~exec[k].overdue
    /\ broker' = broker \ {k}
    /\ exec' = [exec EXCEPT ![k].status = "running"]
    /\ worker' = [worker EXCEPT ![w] = [pc |-> "sending", key |-> k, known |-> exec[k].known]]
    /\ UNCHANGED <<source, web, runnerVars>>

\* The POST reaches the runner; whether its answer comes back is another matter,
\* and the client may send it again.
Post(w) ==
    LET k == worker[w].key
    IN  /\ worker[w].pc = "sending"
        /\ ~worker[w].known
        /\ Claim(k, EnvironmentOf[exec[k].source])
        /\ UNCHANGED hubVars

\* The answer to a POST or a GET: the row as the runner shows it, an accepted
\* one as queued.
Reply(w) ==
    LET k == worker[w].key
        shown == IF op[k].status = "accepted" THEN "queued" ELSE op[k].status
    IN  /\ worker[w].pc = "sending"
        /\ shown # "none"
        /\ worker' = [worker EXCEPT ![w] = [pc |-> shown, key |-> k, known |-> FALSE]]
        /\ UNCHANGED <<source, web, exec, broker, runnerVars>>

EndDelivery(w) == worker' = [worker EXCEPT ![w] = Idle]

\* A retryable error (network, timeout, 409, 429, 5xx) before the deadline.  The
\* task is retried even if the execution was finished meanwhile.
RetryLater(w) ==
    /\ worker[w].pc = "sending"
    /\ ~exec[worker[w].key].overdue
    /\ worker' = [worker EXCEPT ![w].pc = "retrying", ![w].known = FALSE]
    /\ UNCHANGED <<source, web, exec, broker, runnerVars>>

\* An error that is not retryable (configuration, credentials, an answer that
\* cannot be read), or any error after the deadline.  The verdict depends on the
\* job id this delivery has read.
GiveUp(w) ==
    /\ worker[w].pc = "sending"
    /\ Finish(worker[w].key, IF worker[w].known THEN "manual_required" ELSE "failed")
    /\ EndDelivery(w)
    /\ UNCHANGED <<web, broker, runnerVars>>

SaveProgress_Blind(w) ==
    /\ worker[w].pc \in Active
    /\ exec' = [exec EXCEPT ![worker[w].key].known = TRUE,
                            ![worker[w].key].status = "running"]
    /\ worker' = [worker EXCEPT ![w].pc = "retrying"]
    /\ UNCHANGED <<source, web, broker, runnerVars>>

\* _save_runner_progress: only an active row learns the job id, and the task is
\* retried only then.
SaveProgress(w) ==
    /\ worker[w].pc \in Active
    /\ IF exec[worker[w].key].status \in Active
       THEN /\ exec' = [exec EXCEPT ![worker[w].key].known = TRUE,
                                    ![worker[w].key].status = "running"]
            /\ worker' = [worker EXCEPT ![w].pc = "retrying"]
       ELSE /\ EndDelivery(w)
            /\ UNCHANGED exec
    /\ UNCHANGED <<source, web, broker, runnerVars>>

\* A terminal answer.
SaveResult(w) ==
    /\ worker[w].pc \in {"succeeded", "failed"}
    /\ Finish(worker[w].key, worker[w].pc)
    /\ EndDelivery(w)
    /\ UNCHANGED <<web, broker, runnerVars>>

\* self.retry: a new message, or the end of the budget of retries.
Retry(w) ==
    /\ worker[w].pc = "retrying"
    /\ \/ /\ broker' = broker \cup {worker[w].key}
          /\ UNCHANGED <<exec, source>>
       \/ /\ Finish(worker[w].key, "manual_required")
          /\ UNCHANGED broker
    /\ EndDelivery(w)
    /\ UNCHANGED <<web, runnerVars>>

WorkerStep(w) ==
    \/ Reply(w) \/ RetryLater(w) \/ GiveUp(w)
    \/ SaveProgress(w) \/ SaveResult(w) \/ Retry(w)

\* A killed worker; its message comes back, or was acknowledged with the loss.
WorkerCrash(w) ==
    /\ worker[w].pc # "idle"
    /\ Fault
    /\ EndDelivery(w)
    /\ broker' \in {broker, broker \cup {worker[w].key}}
    /\ UNCHANGED <<source, web, exec, op, envLock, slots, auditBroken>>

Publish(k) ==
    /\ k \notin broker
    /\ broker' = broker \cup {k}
    /\ UNCHANGED <<source, web, exec, worker, runnerVars>>

DispatchStale_QueuedOnly(k) == exec[k].status = "queued" /\ Publish(k)

\* dispatch_stale_executions: an active execution nobody has touched for a while
\* is published again, although a worker may still have it.
DispatchStale(k) == exec[k].status \in Active /\ Publish(k)

\* runner_deadline_at is over.
DeadlinePasses(k) ==
    /\ exec[k].status = "running"
    /\ ~exec[k].overdue
    /\ exec' = [exec EXCEPT ![k].overdue = TRUE]
    /\ UNCHANGED <<source, web, broker, worker, runnerVars>>

RunnerRestart ==
    Restart /\ UNCHANGED hubVars

RunnerStep ==
    \E k \in Key : OperationStep(k) /\ UNCHANGED hubVars

-----------------------------------------------------------------------------
(* Operators: transition_release on a locked plan with the current version,  *)
(* and transition_resource for performance runs.                             *)

\* An operator finds the source in one of the states and leaves it in state st.
Operate(name, s, before, st, context) ==
    /\ name \in Operators
    /\ source[s].status \in before
    /\ source[s].version < MaxVersion
    /\ source' = [source EXCEPT ![s].status = st, ![s].context = context,
                                ![s].version = @ + 1]
    /\ UNCHANGED <<web, exec, broker, worker, runnerVars>>

StartRelease(s) == Operate("start", s, {"scheduled"}, "running", source[s].context)

ResumeRelease(s) ==
    /\ source[s].context = "release"
    /\ Operate("resume", s, {"manual_required"}, "running", "")

CancelRelease(s) ==
    \/ Operate("cancel", s, {"scheduled"}, "cancelled", source[s].context)
    \/ /\ source[s].context = "release"
       /\ Operate("cancel", s, {"manual_required"}, "cancelled", source[s].context)

RecordResult(s) ==
    \E st \in {"success", "failed", "manual_required"} :
        Operate("record-result", s, {"running"}, st,
                IF st = "manual_required" THEN "release" ELSE "")

\* record-result with a failure that needs a rollback drops the old approval.
RequireRollback(s) ==
    /\ "record-result" \in Operators
    /\ source[s].status = "running"
    /\ source[s].version < MaxVersion
    /\ source' = [source EXCEPT ![s] = [status |-> "rollback_required", context |-> "",
                                        rollbackApproved |-> FALSE,
                                        version |-> source[s].version + 1]]
    /\ UNCHANGED <<web, exec, broker, worker, runnerVars>>

ApproveRollback(s) ==
    /\ "approve-rollback" \in Operators
    /\ source[s].status = "rollback_required"
    /\ source[s].version < MaxVersion
    /\ source' = [source EXCEPT ![s].rollbackApproved = TRUE, ![s].version = @ + 1]
    /\ UNCHANGED <<web, exec, broker, worker, runnerVars>>

\* rollback_approval_expires_at is over.
ApprovalExpires(s) ==
    /\ source[s].rollbackApproved
    /\ source' = [source EXCEPT ![s].rollbackApproved = FALSE]
    /\ UNCHANGED <<web, exec, broker, worker, runnerVars>>

ResumeRollback(s) ==
    /\ source[s].context = "rollback" /\ source[s].rollbackApproved
    /\ Operate("resume-rollback", s, {"manual_required"}, "rollback_required", "")

RecordRollback(s) ==
    /\ source[s].rollbackApproved
    /\ \E st \in {"rolled_back", "failed", "manual_required"} :
          Operate("record-rollback", s, {"rollback_required"}, st,
                  IF st = "manual_required" THEN "rollback" ELSE "")

OperateRelease(s) ==
    \/ StartRelease(s) \/ ResumeRelease(s) \/ CancelRelease(s) \/ RecordResult(s)
    \/ RequireRollback(s) \/ ApproveRollback(s) \/ ApprovalExpires(s)
    \/ ResumeRollback(s) \/ RecordRollback(s)

OperatePerformance(s) ==
    \/ Operate("cancel", s, {"approved"}, "cancelled", "")
    \/ \E st \in {"success", "failed", "manual_required"} :
          Operate("record-result", s, {"approved"}, st, "")

-----------------------------------------------------------------------------
Next ==
    \/ \E k \in Key :
          \/ \E s \in Source, kind \in Kind : ReadSource(k, s, kind)
          \/ CheckActive(k) \/ CreateExecution(k)
          \/ Enqueue(k) \/ QueueUnavailable(k) \/ WebCrash(k)
          \/ DispatchStale(k) \/ DeadlinePasses(k)
    \/ \E k \in Key : Ignore(k) \/ Overdue(k)
    \/ \E w \in Worker :
          \/ \E k \in Key : Take(w, k)
          \/ Post(w) \/ WorkerStep(w) \/ WorkerCrash(w)
    \/ RunnerStep \/ RunnerRestart
    \/ \E s \in Release : OperateRelease(s)
    \/ \E s \in Performance : OperatePerformance(s)

Spec == Init /\ [][Next]_vars

\* A worker finishes what it has begun (every request has a timeout), the beat
\* publishes stale executions, time passes, and no message of an execution is
\* passed over for ever.  Nothing is assumed of the runner or the operators.
Fairness ==
    /\ \A w \in Worker : WF_vars(WorkerStep(w))
    /\ \A k \in Key :
          /\ WF_vars(DispatchStale(k)) /\ WF_vars(DeadlinePasses(k))
          /\ WF_vars(Overdue(k))
          /\ SF_vars(\E w \in Worker : Take(w, k))

FairSpec == Spec /\ Fairness

-----------------------------------------------------------------------------
\* A success is never made up: an execution is shown as succeeded only if its
\* own command ran and exited with zero, whatever was lost, late or restarted.
SuccessIsReal ==
    \A k \in Key : exec[k].status = "succeeded" => op[k].exit = "zero"

\* The verdict of an execution stands: no late delivery, stale answer or repeated
\* message changes it (_save_runner_progress and _finish_execution look again).
VerdictFinal ==
    [][\A k \in Key : exec[k].status \in Terminal => exec'[k].status = exec[k].status]_vars

\* Every execution comes to a verdict, although its message may be lost, its
\* worker killed and the runner silent for good.
EveryExecutionEnds ==
    \A k \in Key : exec[k].status \in Active ~> exec[k].status \in Terminal
=============================================================================
