------------------------ MODULE PilotExecutionProofs ------------------------
(* Executions and runner together: a success is real, and a verdict stands,  *)
(* for any number of requests, workers, environments and faults.             *)
EXTENDS PilotExecution, ControlledRunnerProofs

-----------------------------------------------------------------------------
(* The inductive invariant. *)

\* A request that has read its source knows it.
SoundRequest == {r \in Request : r.pc \in {"read", "checked", "enqueue"} => r.source \in Source}

\* An execution that exists has its source.
SoundExecution == {r \in Execution : r.status # "none" => r.source \in Source}

Created == {k \in Key : exec[k].status # "none"}

\* The phases of a request before its row is written.
Unwritten == {"new", "read", "checked"}

HubTyped ==
    /\ source \in [Source -> SourceState]
    /\ web \in [Key -> SoundRequest]
    /\ exec \in [Key -> SoundExecution]
    /\ broker \subseteq Created
    /\ worker \in [Worker -> Delivery]

RequestsInStep ==
    \A k \in Key :
        /\ web[k].pc \in Unwritten => k \notin Created
        /\ web[k].pc = "enqueue" => k \in Created

DeliveriesInStep ==
    \A w \in Worker :
        /\ worker[w].pc # "idle" => worker[w].key \in Created
        /\ worker[w].pc = "succeeded" => op[worker[w].key].exit = "zero"

HubInv == HubTyped /\ RequestsInStep /\ DeliveriesInStep /\ SuccessIsReal

Inv == RunnerInv /\ HubInv

-----------------------------------------------------------------------------
(* What an action may do to executions and deliveries. *)

\* The execution of k is left alone, or had no verdict yet and is rewritten; it
\* succeeds only if its command did.
ExecMove(k) ==
    \/ UNCHANGED exec
    \/ /\ exec[k].status \notin Terminal
       /\ \E r \in SoundExecution :
             /\ exec' = [exec EXCEPT ![k] = r]
             /\ r.status # "none"
             /\ r.status = "succeeded" => op[k].exit = "zero"

\* The delivery of w is left alone or becomes one that is in step.
WorkerMove(w) ==
    \/ UNCHANGED worker
    \/ \E d \in Delivery :
          /\ worker' = [worker EXCEPT ![w] = d]
          /\ d.pc # "idle" => d.key \in Created
          /\ d.pc = "succeeded" => op[d.key].exit = "zero"

\* Requests keep in step with the rows they write.
WebMove(k) ==
    \/ UNCHANGED web
    \/ \E r \in SoundRequest :
          /\ web' = [web EXCEPT ![k] = r]
          /\ r.pc \in Unwritten => k \notin Created'
          /\ r.pc = "enqueue" => k \in Created'

LEMMA CreatedGrows ==
    ASSUME HubInv, NEW k \in Key, ExecMove(k)
    PROVE  /\ exec' \in [Key -> SoundExecution]
           /\ Created \subseteq Created'
           /\ \A l \in Key : l # k => exec'[l] = exec[l]
<1>1. exec \in [Key -> SoundExecution]
  BY DEF HubInv, HubTyped
<1> QED
  BY <1>1 DEF ExecMove, Created

\* Moves of these kinds keep the invariant.
LEMMA MovesKeep ==
    ASSUME Inv, RunnerMove, NEW k \in Key, NEW w,
           ExecMove(k), WebMove(k), w \in Worker => WorkerMove(w),
           w \notin Worker => UNCHANGED worker,
           web[k].pc \notin Unwritten \/ UNCHANGED exec \/ web'[k].pc \notin Unwritten,
           source' \in [Source -> SourceState], broker' \subseteq Created'
    PROVE  Inv'
<1>1. RunnerInv'
  BY RunnerKept DEF Inv
<1>2. /\ exec' \in [Key -> SoundExecution]
      /\ Created \subseteq Created'
      /\ \A l \in Key : l # k => exec'[l] = exec[l]
  BY CreatedGrows DEF Inv
<1>3. web \in [Key -> SoundRequest] /\ web' \in [Key -> SoundRequest]
  BY DEF Inv, HubInv, HubTyped, WebMove
<1>4. \A l \in Key : op[l].exit = "zero" => op'[l].exit = "zero"
  BY ExitZeroStays DEF Inv
<1>5. worker \in [Worker -> Delivery] /\ DeliveriesInStep
  BY DEF Inv, HubInv, HubTyped
<1>6. worker' \in [Worker -> Delivery] /\ DeliveriesInStep'
  <2>1. CASE UNCHANGED worker
    <3>1. Created \subseteq Key
      BY DEF Created
    <3> QED
      BY <1>2, <1>4, <1>5, <2>1, <3>1 DEF DeliveriesInStep
  <2>2. CASE w \in Worker /\ ~UNCHANGED worker
    <3>1. PICK d \in Delivery :
              /\ worker' = [worker EXCEPT ![w] = d]
              /\ d.pc # "idle" => d.key \in Created
              /\ d.pc = "succeeded" => op[d.key].exit = "zero"
      BY <2>2 DEF WorkerMove
    <3>2. Created \subseteq Key
      BY DEF Created
    <3>3. \A v \in Worker : \/ worker'[v] = d
                            \/ worker'[v] = worker[v]
      BY <3>1, <1>5
    <3>4. \A v \in Worker :
              /\ worker'[v].pc # "idle" => worker'[v].key \in Created
              /\ worker'[v].pc = "succeeded" => op[worker'[v].key].exit = "zero"
      BY <3>1, <3>3, <1>5 DEF DeliveriesInStep
    <3>5. \A v \in Worker :
              /\ worker'[v].pc # "idle" => worker'[v].key \in Created'
              /\ worker'[v].pc = "succeeded" => op'[worker'[v].key].exit = "zero"
      BY <3>2, <3>4, <1>2, <1>4
    <3> QED
      BY <3>1, <3>5, <1>5 DEF DeliveriesInStep
  <2> QED
    BY <2>1, <2>2
<1>7. RequestsInStep'
  <2> SUFFICES ASSUME NEW l \in Key
               PROVE  /\ web'[l].pc \in Unwritten => l \notin Created'
                      /\ web'[l].pc = "enqueue" => l \in Created'
    BY DEF RequestsInStep
  <2>1. /\ web[l].pc \in Unwritten => l \notin Created
        /\ web[l].pc = "enqueue" => l \in Created
    BY DEF Inv, HubInv, RequestsInStep
  <2>2. CASE l # k
    <3>1. web'[l] = web[l] /\ exec'[l] = exec[l]
      BY <1>2, <1>3, <2>2 DEF WebMove
    <3> QED
      BY <2>1, <3>1 DEF Created
  <2>3. CASE l = k /\ UNCHANGED web
    BY <1>2, <2>1, <2>3 DEF Created
  <2>4. CASE l = k /\ ~UNCHANGED web
    BY <1>3, <2>4 DEF WebMove
  <2> QED
    BY <2>2, <2>3, <2>4
<1>8. SuccessIsReal'
  BY <1>2, <1>4 DEF Inv, HubInv, HubTyped, SuccessIsReal, ExecMove
<1> QED
  BY <1>1, <1>2, <1>3, <1>6, <1>7, <1>8 DEF Inv, HubInv, HubTyped

\* An action that touches only broker, with messages of existing executions, or
\* nothing of the backend at all.
LEMMA BackendIdle ==
    ASSUME Inv, RunnerMove, UNCHANGED <<source, web, exec, worker>>, broker' \subseteq Created
    PROVE  Inv'
<1>1. RunnerInv'
  BY RunnerKept DEF Inv
<1>2. \A l \in Key : op[l].exit = "zero" => op'[l].exit = "zero"
  BY ExitZeroStays DEF Inv
<1>3. Created' = Created /\ Created \subseteq Key
  BY DEF Created
<1>4. HubTyped' /\ RequestsInStep'
  BY <1>3 DEF Inv, HubInv, HubTyped, RequestsInStep
<1>5. DeliveriesInStep'
  BY <1>2, <1>3 DEF Inv, HubInv, DeliveriesInStep
<1>6. SuccessIsReal'
  BY <1>2 DEF Inv, HubInv, SuccessIsReal
<1> QED
  BY <1>1, <1>4, <1>5, <1>6 DEF Inv, HubInv

-----------------------------------------------------------------------------
(* Verdicts. *)

SourceContext == {"", "release", "rollback"}

LEMMA SourceDecided ==
    ASSUME HubInv, NEW s \in Source, NEW st \in SourceStatus, NEW c \in SourceContext
    PROVE  [source EXCEPT ![s].status = st, ![s].context = c, ![s].version = @ + 1]
                \in [Source -> SourceState]
<1>1. source \in [Source -> SourceState]
  BY DEF HubInv, HubTyped
<1>2. PICK t \in SourceState : t = source[s]
  BY <1>1
<1>3. PICK m \in Nat : m = t.version + 1
  <2>1. t.version \in Nat
    BY DEF SourceState
  <2> QED
    BY <2>1
<1>4. [t EXCEPT !.status = st, !.context = c, !.version = m] \in SourceState
  BY DEF SourceState, SourceContext
<1> QED
  BY <1>1, <1>2, <1>3, <1>4

LEMMA SourceClaimed ==
    ASSUME HubInv, NEW s \in Source, NEW st \in SourceStatus, NEW n \in Nat
    PROVE  [source EXCEPT ![s].status = st, ![s].version = n] \in [Source -> SourceState]
<1>1. source \in [Source -> SourceState]
  BY DEF HubInv, HubTyped
<1>2. PICK t \in SourceState : t = source[s]
  BY <1>1
<1>3. [t EXCEPT !.status = st, !.version = n] \in SourceState
  BY DEF SourceState
<1> QED
  BY <1>1, <1>2, <1>3

LEMMA SourceApproved ==
    ASSUME HubInv, NEW s \in Source, NEW b \in BOOLEAN
    PROVE  /\ [source EXCEPT ![s].rollbackApproved = b, ![s].version = @ + 1]
                \in [Source -> SourceState]
           /\ [source EXCEPT ![s].rollbackApproved = b] \in [Source -> SourceState]
<1>1. source \in [Source -> SourceState]
  BY DEF HubInv, HubTyped
<1>2. PICK t \in SourceState : t = source[s]
  BY <1>1
<1>3. PICK m \in Nat : m = t.version + 1
  <2>1. t.version \in Nat
    BY DEF SourceState
  <2> QED
    BY <2>1
<1>4. /\ [t EXCEPT !.rollbackApproved = b, !.version = m] \in SourceState
      /\ [t EXCEPT !.rollbackApproved = b] \in SourceState
  BY DEF SourceState
<1> QED
  BY <1>1, <1>2, <1>3, <1>4

LEMMA VerdictWords ==
    ASSUME NEW kind \in Kind, NEW target
    PROVE  /\ ReleaseAfter(kind, target).status \in SourceStatus
           /\ ReleaseAfter(kind, target).context \in SourceContext
           /\ PerformanceAfter(target).status \in SourceStatus
           /\ PerformanceAfter(target).context \in SourceContext
BY DEF ReleaseAfter, PerformanceAfter, Kind, SourceStatus, SourceContext

LEMMA SourceAfterTyped ==
    ASSUME HubInv, NEW k \in Created, NEW target
    PROVE  SourceAfter(k, target) \in [Source -> SourceState]
<1>1. PICK e \in SoundExecution : e = exec[k] /\ e.status # "none"
  BY DEF Created, HubInv, HubTyped
<1>2. e.source \in Source /\ e.kind \in Kind
  BY <1>1 DEF SoundExecution, Execution
<1>3. PICK a : a = IF exec[k].kind = "performance" THEN PerformanceAfter(target)
                                                  ELSE ReleaseAfter(exec[k].kind, target)
  OBVIOUS
<1>4. a.status \in SourceStatus /\ a.context \in SourceContext
  BY <1>1, <1>2, <1>3, VerdictWords
<1>5. SourceAfter(k, target) =
        [source EXCEPT ![e.source].status = a.status, ![e.source].context = a.context,
                       ![e.source].version = @ + 1]
  BY <1>1, <1>3 DEF SourceAfter
<1>6. [source EXCEPT ![e.source].status = a.status, ![e.source].context = a.context,
                     ![e.source].version = @ + 1] \in [Source -> SourceState]
  BY <1>2, <1>4, SourceDecided
<1> QED
  BY <1>5, <1>6

LEMMA VerdictMoves ==
    ASSUME HubInv, NEW k \in Created, NEW target \in Terminal, Verdict(k, target),
           exec[k].status \notin Terminal, target = "succeeded" => op[k].exit = "zero"
    PROVE  ExecMove(k) /\ source' \in [Source -> SourceState]
<1>1. PICK e \in SoundExecution : e = exec[k] /\ e.status # "none"
  BY DEF Created, HubInv, HubTyped
<1>2. PICK r : r = [e EXCEPT !.status = target, !.known = FALSE, !.overdue = FALSE]
  OBVIOUS
<1>3. r \in SoundExecution /\ r.status = target /\ target # "none"
  BY <1>1, <1>2 DEF SoundExecution, Execution, Terminal
<1>4. exec' = [exec EXCEPT ![k] = r]
  BY <1>1, <1>2 DEF Verdict
<1>5. ExecMove(k)
  BY <1>3, <1>4 DEF ExecMove
<1> QED
  BY <1>5, SourceAfterTyped DEF Verdict

LEMMA FinishMoves ==
    ASSUME HubInv, NEW k \in Created, NEW target \in Terminal, Finish(k, target),
           target = "succeeded" => op[k].exit = "zero"
    PROVE  ExecMove(k) /\ source' \in [Source -> SourceState]
<1>1. CASE exec[k].status \in Terminal
  BY <1>1 DEF Finish, ExecMove, HubInv, HubTyped
<1>2. CASE exec[k].status \notin Terminal
  <2>1. /\ "failed" \in Terminal /\ "failed" # "succeeded"
        /\ "manual_required" \in Terminal /\ "manual_required" # "succeeded"
    BY DEF Terminal
  <2> QED
    BY <1>2, <2>1, VerdictMoves DEF Finish
<1> QED
  BY <1>1, <1>2

-----------------------------------------------------------------------------
(* The web request. *)

LEMMA ReadSourceKeeps ==
    ASSUME Inv, NEW k \in Key, NEW s \in Source, NEW kind \in Kind, ReadSource(k, s, kind)
    PROVE  Inv'
<1>1. source[s].version \in Nat
  BY DEF Inv, HubInv, HubTyped, SourceState
<1>2. PICK r : r = [pc |-> "read", source |-> s, kind |-> kind, seen |-> source[s].version]
  OBVIOUS
<1>3. r \in SoundRequest /\ r.pc = "read"
  BY <1>1, <1>2 DEF SoundRequest, Request
<1>4. web' = [web EXCEPT ![k] = r] /\ UNCHANGED <<source, exec, broker, worker, runnerVars>>
  BY <1>2 DEF ReadSource
<1>5. k \notin Created
  BY DEF ReadSource, Inv, HubInv, RequestsInStep, Unwritten
<1>6. Created' = Created
  BY <1>4 DEF Created
<1>7. WebMove(k) /\ ExecMove(k)
  BY <1>3, <1>4, <1>5, <1>6 DEF WebMove, ExecMove
<1>8. source' \in [Source -> SourceState] /\ broker' \subseteq Created'
  BY <1>4, <1>6 DEF Inv, HubInv, HubTyped
<1> QED
  BY <1>4, <1>7, <1>8, MovesKeep DEF RunnerMove, WorkerMove

LEMMA CheckActiveKeeps ==
    ASSUME Inv, NEW k \in Key, CheckActive(k)
    PROVE  Inv'
<1>1. PICK t \in SoundRequest : t = web[k] /\ t.pc = "read"
  BY DEF CheckActive, Inv, HubInv, HubTyped
<1>2. PICK r : r = [t EXCEPT !.pc = "checked"]
  OBVIOUS
<1>3. r \in SoundRequest /\ r.pc = "checked"
  BY <1>1, <1>2 DEF SoundRequest, Request
<1>4. web' = [web EXCEPT ![k] = r] /\ UNCHANGED <<source, exec, broker, worker, runnerVars>>
  BY <1>1, <1>2 DEF CheckActive
<1>5. k \notin Created
  BY <1>1 DEF Inv, HubInv, RequestsInStep, Unwritten
<1>6. Created' = Created
  BY <1>4 DEF Created
<1>7. WebMove(k) /\ ExecMove(k)
  BY <1>3, <1>4, <1>5, <1>6 DEF WebMove, ExecMove
<1>8. source' \in [Source -> SourceState] /\ broker' \subseteq Created'
  BY <1>4, <1>6 DEF Inv, HubInv, HubTyped
<1> QED
  BY <1>4, <1>7, <1>8, MovesKeep DEF RunnerMove, WorkerMove

LEMMA CreateExecutionKeeps ==
    ASSUME Inv, NEW k \in Key, CreateExecution(k)
    PROVE  Inv'
<1>1. PICK t \in SoundRequest : t = web[k] /\ t.pc = "checked"
  BY DEF CreateExecution, Inv, HubInv, HubTyped
<1>2. t.source \in Source /\ t.kind \in Kind /\ t.seen + 1 \in Nat
  BY <1>1 DEF SoundRequest, Request
<1>3. PICK r : r = [t EXCEPT !.pc = "enqueue"]
  OBVIOUS
<1>4. PICK x : x = [status |-> "queued", source |-> t.source, kind |-> t.kind,
                    known |-> FALSE, overdue |-> FALSE]
  OBVIOUS
<1>5. r \in SoundRequest /\ r.pc = "enqueue"
  BY <1>1, <1>2, <1>3 DEF SoundRequest, Request
<1>6. x \in SoundExecution /\ x.status = "queued"
  BY <1>2, <1>4 DEF SoundExecution, Execution, Active
<1>7. web' = [web EXCEPT ![k] = r] /\ exec' = [exec EXCEPT ![k] = x]
  BY <1>1, <1>3, <1>4 DEF CreateExecution
<1>8. UNCHANGED <<broker, worker, runnerVars>>
  BY DEF CreateExecution
<1>9. k \notin Created
  BY <1>1 DEF Inv, HubInv, RequestsInStep, Unwritten
<1>10. ExecMove(k)
  BY <1>6, <1>7, <1>9 DEF ExecMove, Created, Terminal
<1>11. Created \subseteq Created' /\ k \in Created'
  BY <1>6, <1>7, <1>10, CreatedGrows DEF Created, Inv, HubInv, HubTyped
<1>12. WebMove(k) /\ web'[k].pc \notin Unwritten
  BY <1>5, <1>7, <1>11 DEF WebMove, Unwritten, Inv, HubInv, HubTyped
<1>13. source' \in [Source -> SourceState]
  <2>1. CASE t.kind = "deploy"
    <3>1. source' = [source EXCEPT ![t.source].status = "running",
                                   ![t.source].version = t.seen + 1]
      BY <1>1, <2>1 DEF CreateExecution
    <3>2. "running" \in SourceStatus
      BY DEF SourceStatus
    <3> QED
      BY <1>2, <3>1, <3>2, SourceClaimed DEF Inv
  <2>2. CASE t.kind # "deploy"
    BY <1>1, <2>2 DEF CreateExecution, Inv, HubInv, HubTyped
  <2> QED
    BY <2>1, <2>2
<1>14. broker' \subseteq Created'
  BY <1>8, <1>11 DEF Inv, HubInv, HubTyped
<1> QED
  BY <1>8, <1>10, <1>12, <1>13, <1>14, MovesKeep DEF RunnerMove, WorkerMove

\* What ends a request: its row exists by then.
LEMMA RequestEndKeeps ==
    ASSUME Inv, RunnerMove, NEW k \in Created, Answered(k), ExecMove(k), UNCHANGED worker,
           source' \in [Source -> SourceState], broker' \subseteq Created
    PROVE  Inv'
<1>1. k \in Key /\ k \in Created' /\ broker' \subseteq Created'
  BY CreatedGrows DEF Created, Inv
<1>2. PICK r : r = [NoRequest EXCEPT !.pc = "done"]
  OBVIOUS
<1>3. r \in SoundRequest /\ r.pc = "done"
  BY <1>2 DEF NoRequest, SoundRequest, Request, Kind
<1>4. web' = [web EXCEPT ![k] = r]
  BY <1>2 DEF Answered
<1>5. web'[k].pc \notin Unwritten
  BY <1>1, <1>3, <1>4 DEF Unwritten, Inv, HubInv, HubTyped
<1>6. WebMove(k)
  BY <1>3, <1>4 DEF WebMove, Unwritten
<1> QED
  BY <1>1, <1>5, <1>6, MovesKeep DEF WorkerMove

LEMMA WebKeeps ==
    ASSUME Inv, NEW k \in Key, Enqueue(k) \/ QueueUnavailable(k) \/ WebCrash(k)
    PROVE  Inv'
<1>1. web[k].pc = "enqueue" /\ Answered(k) /\ UNCHANGED worker
  BY DEF Enqueue, QueueUnavailable, WebCrash
<1>2. k \in Created
  BY <1>1 DEF Inv, HubInv, RequestsInStep
<1>3. broker \subseteq Created /\ source \in [Source -> SourceState]
  BY DEF Inv, HubInv, HubTyped
<1>4. CASE Enqueue(k)
  BY <1>1, <1>2, <1>3, <1>4, RequestEndKeeps DEF Enqueue, ExecMove, RunnerMove
<1>5. CASE QueueUnavailable(k)
  <2>1. /\ "failed" \in Terminal /\ "failed" # "succeeded"
        /\ "manual_required" \in Terminal /\ "manual_required" # "succeeded"
    BY DEF Terminal
  <2>2. ExecMove(k) /\ source' \in [Source -> SourceState]
    BY <1>2, <1>5, <2>1, FinishMoves DEF QueueUnavailable, Inv
  <2> QED
    BY <1>1, <1>2, <1>3, <1>5, <2>2, RequestEndKeeps DEF QueueUnavailable, RunnerMove
<1>6. CASE WebCrash(k)
  BY <1>1, <1>2, <1>3, <1>6, RequestEndKeeps DEF WebCrash, ExecMove, RunnerMove
<1> QED
  BY <1>4, <1>5, <1>6

-----------------------------------------------------------------------------
(* The worker. *)

\* An action on an execution that exists, and on at most one delivery.
LEMMA DeliveryKeeps ==
    ASSUME Inv, RunnerMove, NEW k \in Created, NEW w,
           ExecMove(k), UNCHANGED web, w \in Worker => WorkerMove(w),
           w \notin Worker => UNCHANGED worker,
           source' \in [Source -> SourceState], broker' \subseteq Created
    PROVE  Inv'
<1>1. k \in Key /\ broker' \subseteq Created'
  BY CreatedGrows DEF Created, Inv
<1>2. web[k].pc \notin Unwritten
  BY <1>1 DEF Inv, HubInv, RequestsInStep
<1> QED
  BY <1>1, <1>2, MovesKeep DEF WebMove

LEMMA IdleDelivery == Idle \in Delivery /\ Idle.pc = "idle"
BY DEF Idle, Delivery

LEMMA EndDeliveryMoves ==
    ASSUME NEW w \in Worker, EndDelivery(w)
    PROVE  WorkerMove(w)
BY IdleDelivery DEF EndDelivery, WorkerMove

\* A delivery goes on to a phase that promises nothing.
LEMMA DeliveryGoesOn ==
    ASSUME Inv, NEW w \in Worker, worker[w].pc # "idle",
           NEW pc \in {"sending", "retrying"} \cup Answer,
           pc = "succeeded" => op[worker[w].key].exit = "zero",
           NEW known \in BOOLEAN,
           worker' = [worker EXCEPT ![w] = [pc |-> pc, key |-> worker[w].key, known |-> known]]
    PROVE  WorkerMove(w)
<1>1. worker[w].key \in Created
  BY DEF Inv, HubInv, DeliveriesInStep
<1>2. PICK d : d = [pc |-> pc, key |-> worker[w].key, known |-> known]
  OBVIOUS
<1>3. d \in Delivery /\ d.pc = pc /\ d.key = worker[w].key
  BY <1>1, <1>2 DEF Delivery, Created
<1> QED
  BY <1>1, <1>2, <1>3 DEF WorkerMove

LEMMA DeliveryShape ==
    ASSUME Inv, NEW w \in Worker
    PROVE  /\ worker[w] = [pc |-> worker[w].pc, key |-> worker[w].key, known |-> worker[w].known]
           /\ worker[w].known \in BOOLEAN
           /\ worker \in [Worker -> Delivery]
BY DEF Inv, HubInv, HubTyped, Delivery

LEMMA MessageKeeps ==
    ASSUME Inv, NEW k \in Key, Ignore(k) \/ Overdue(k) \/ DispatchStale(k)
    PROVE  Inv'
<1>1. broker \subseteq Created /\ source \in [Source -> SourceState]
  BY DEF Inv, HubInv, HubTyped
<1>2. CASE Ignore(k)
  BY <1>1, <1>2, BackendIdle DEF Ignore, RunnerMove
<1>3. CASE DispatchStale(k)
  <2>1. k \in Created
    BY <1>3 DEF DispatchStale, Created, Active
  <2> QED
    BY <1>1, <1>3, <2>1, BackendIdle DEF DispatchStale, Publish, RunnerMove
<1>4. CASE Overdue(k)
  <2>1. k \in Created /\ broker' \subseteq Created
    BY <1>1, <1>4 DEF Overdue
  <2>2. "manual_required" \in Terminal /\ "manual_required" # "succeeded"
    BY DEF Terminal
  <2>3. ExecMove(k) /\ source' \in [Source -> SourceState]
    BY <1>4, <2>1, <2>2, FinishMoves DEF Overdue, Inv
  <2>4. UNCHANGED <<web, worker, runnerVars>>
    BY <1>4 DEF Overdue
  <2>5. RunnerMove
    BY <2>4 DEF RunnerMove
  <2>6. PICK w : w \notin Worker
    BY NoSetContainsEverything
  <2> QED
    BY <2>1, <2>3, <2>4, <2>5, <2>6, DeliveryKeeps
<1> QED
  BY <1>2, <1>3, <1>4

LEMMA TakeKeeps ==
    ASSUME Inv, NEW w \in Worker, NEW k \in Key, Take(w, k)
    PROVE  Inv'
<1>1. k \in Created /\ broker' \subseteq Created
  BY DEF Take, Inv, HubInv, HubTyped
<1>2. PICK e \in SoundExecution : e = exec[k] /\ e.status \in Active
  BY DEF Take, Inv, HubInv, HubTyped
<1>3. PICK r : r = [e EXCEPT !.status = "running"]
  OBVIOUS
<1>4. r \in SoundExecution /\ r.status = "running"
  BY <1>2, <1>3 DEF SoundExecution, Execution, Active
<1>5. exec' = [exec EXCEPT ![k] = r]
  BY <1>2, <1>3 DEF Take
<1>6. ExecMove(k)
  BY <1>2, <1>4, <1>5 DEF ExecMove, Active, Terminal
<1>7. PICK d : d = [pc |-> "sending", key |-> k, known |-> e.known]
  OBVIOUS
<1>8. d \in Delivery /\ d.pc = "sending" /\ d.key = k
  BY <1>2, <1>7 DEF Delivery, SoundExecution, Execution
<1>9. worker' = [worker EXCEPT ![w] = d]
  BY <1>2, <1>7 DEF Take
<1>10. WorkerMove(w)
  BY <1>1, <1>8, <1>9 DEF WorkerMove
<1>11. source' \in [Source -> SourceState] /\ UNCHANGED <<web, runnerVars>>
  BY DEF Take, Inv, HubInv, HubTyped
<1> QED
  BY <1>1, <1>6, <1>10, <1>11, DeliveryKeeps DEF RunnerMove

LEMMA PostKeeps ==
    ASSUME Inv, NEW w \in Worker, Post(w)
    PROVE  Inv'
<1>1. worker[w].key \in Created
  BY DEF Post, Inv, HubInv, DeliveriesInStep
<1>2. PICK e \in SoundExecution : e = exec[worker[w].key] /\ e.status # "none"
  BY <1>1 DEF Created, Inv, HubInv, HubTyped
<1>3. EnvironmentOf[e.source] \in Env
  BY <1>2, PilotAssumption DEF SoundExecution
<1>4. RunnerMove
  BY <1>1, <1>2, <1>3 DEF Post, RunnerMove, Created
<1> QED
  BY <1>4, BackendIdle DEF Post, hubVars, Inv, HubInv, HubTyped

LEMMA ReplyKeeps ==
    ASSUME Inv, NEW w \in Worker, Reply(w)
    PROVE  Inv'
<1>1. worker[w].key \in Created /\ worker[w].pc = "sending"
  BY DEF Reply, Inv, HubInv, DeliveriesInStep
<1>2. PICK t \in SoundOperation : t = op[worker[w].key]
  BY <1>1 DEF Inv, RunnerInv, Created
<1>3. PICK shown : shown = IF t.status = "accepted" THEN "queued" ELSE t.status
  OBVIOUS
<1>4. /\ shown # "none"
      /\ worker' = [worker EXCEPT ![w] = [pc |-> shown, key |-> worker[w].key, known |-> FALSE]]
  BY <1>2, <1>3 DEF Reply
<1>5. shown \in Answer
  BY <1>2, <1>3, <1>4 DEF SoundOperation, Operation, OpStatus, Answer
<1>6. shown = "succeeded" => op[worker[w].key].exit = "zero"
  BY <1>2, <1>3 DEF SoundOperation
<1>7. WorkerMove(w)
  <2>1. shown \in {"sending", "retrying"} \cup Answer
    BY <1>5
  <2> QED
    BY <1>1, <1>4, <1>6, <2>1, DeliveryGoesOn
<1>8. /\ UNCHANGED <<web, exec, broker, runnerVars>> /\ source' \in [Source -> SourceState]
      /\ broker' \subseteq Created
  BY DEF Reply, Inv, HubInv, HubTyped
<1> QED
  BY <1>1, <1>7, <1>8, DeliveryKeeps DEF RunnerMove, ExecMove

LEMMA RetryLaterKeeps ==
    ASSUME Inv, NEW w \in Worker, RetryLater(w)
    PROVE  Inv'
<1>1. worker[w].key \in Created /\ worker[w].pc = "sending"
  BY DEF RetryLater, Inv, HubInv, DeliveriesInStep
<1>2. PICK d : d = [worker[w] EXCEPT !.pc = "retrying", !.known = FALSE]
  OBVIOUS
<1>3. WorkerMove(w)
  <2>1. d \in Delivery /\ d.pc = "retrying" /\ d.key = worker[w].key
    BY <1>2, DeliveryShape DEF Delivery
  <2>2. worker' = [worker EXCEPT ![w] = d]
    BY <1>2, DeliveryShape DEF RetryLater
  <2> QED
    BY <1>1, <2>1, <2>2 DEF WorkerMove
<1>4. /\ UNCHANGED <<web, exec, broker, runnerVars>> /\ source' \in [Source -> SourceState]
      /\ broker' \subseteq Created
  BY DEF RetryLater, Inv, HubInv, HubTyped
<1> QED
  BY <1>1, <1>3, <1>4, DeliveryKeeps DEF RunnerMove, ExecMove

LEMMA GiveUpKeeps ==
    ASSUME Inv, NEW w \in Worker, GiveUp(w) \/ SaveResult(w)
    PROVE  Inv'
<1>1. worker[w].key \in Created
  BY DEF GiveUp, SaveResult, Inv, HubInv, DeliveriesInStep
<1>2. PICK target \in Terminal :
          /\ Finish(worker[w].key, target)
          /\ target = "succeeded" => op[worker[w].key].exit = "zero"
  <2>1. CASE GiveUp(w)
    BY <2>1 DEF GiveUp, Terminal
  <2>2. CASE SaveResult(w)
    <3>1. worker[w].pc \in Terminal /\ Finish(worker[w].key, worker[w].pc)
      BY <2>2 DEF SaveResult, Terminal
    <3>2. worker[w].pc = "succeeded" => op[worker[w].key].exit = "zero"
      BY DEF Inv, HubInv, DeliveriesInStep
    <3> QED
      BY <3>1, <3>2
  <2> QED
    BY <2>1, <2>2
<1>3. ExecMove(worker[w].key) /\ source' \in [Source -> SourceState]
  BY <1>1, <1>2, FinishMoves DEF Inv
<1>4. WorkerMove(w) /\ UNCHANGED <<web, runnerVars>> /\ broker' \subseteq Created
  BY EndDeliveryMoves DEF GiveUp, SaveResult, Inv, HubInv, HubTyped
<1> QED
  BY <1>1, <1>3, <1>4, DeliveryKeeps DEF RunnerMove

LEMMA SaveProgressKeeps ==
    ASSUME Inv, NEW w \in Worker, SaveProgress(w)
    PROVE  Inv'
<1>1. worker[w].key \in Created /\ worker[w].pc \in Active /\ worker[w].pc # "idle"
  BY DEF SaveProgress, Active, Inv, HubInv, DeliveriesInStep
<1>2. /\ UNCHANGED <<web, runnerVars>> /\ source' \in [Source -> SourceState]
      /\ broker' \subseteq Created
  BY DEF SaveProgress, Inv, HubInv, HubTyped
<1>3. CASE exec[worker[w].key].status \in Active
  <2>1. PICK e \in SoundExecution : e = exec[worker[w].key] /\ e.status \in Active
    BY <1>1, <1>3 DEF Created, Inv, HubInv, HubTyped
  <2>2. PICK r : r = [e EXCEPT !.known = TRUE, !.status = "running"]
    OBVIOUS
  <2>3. r \in SoundExecution /\ r.status = "running"
    BY <2>1, <2>2 DEF SoundExecution, Execution, Active
  <2>4. exec' = [exec EXCEPT ![worker[w].key] = r]
    BY <1>3, <2>1, <2>2 DEF SaveProgress
  <2>5. ExecMove(worker[w].key)
    BY <2>1, <2>3, <2>4 DEF ExecMove, Active, Terminal
  <2>6. worker' = [worker EXCEPT ![w] = [pc |-> "retrying", key |-> worker[w].key,
                                         known |-> worker[w].known]]
    BY <1>3, DeliveryShape DEF SaveProgress, Delivery
  <2>7. WorkerMove(w)
    BY <1>1, <2>6, DeliveryShape, DeliveryGoesOn
  <2> QED
    BY <1>1, <1>2, <2>5, <2>7, DeliveryKeeps DEF RunnerMove
<1>4. CASE exec[worker[w].key].status \notin Active
  <2>1. WorkerMove(w) /\ UNCHANGED exec
    BY <1>4, EndDeliveryMoves DEF SaveProgress
  <2> QED
    BY <1>1, <1>2, <2>1, DeliveryKeeps DEF RunnerMove, ExecMove
<1> QED
  BY <1>3, <1>4

LEMMA RetryKeeps ==
    ASSUME Inv, NEW w \in Worker, Retry(w)
    PROVE  Inv'
<1>1. worker[w].key \in Created
  BY DEF Retry, Inv, HubInv, DeliveriesInStep
<1>2. WorkerMove(w) /\ UNCHANGED <<web, runnerVars>> /\ broker' \subseteq Created
  BY <1>1, EndDeliveryMoves DEF Retry, Inv, HubInv, HubTyped
<1>3. ExecMove(worker[w].key) /\ source' \in [Source -> SourceState]
  <2>1. CASE UNCHANGED <<exec, source>>
    BY <2>1 DEF ExecMove, Inv, HubInv, HubTyped
  <2>2. CASE Finish(worker[w].key, "manual_required")
    <3>1. "manual_required" \in Terminal /\ "manual_required" # "succeeded"
      BY DEF Terminal
    <3> QED
      BY <1>1, <2>2, <3>1, FinishMoves DEF Inv
  <2> QED
    BY <2>1, <2>2 DEF Retry
<1> QED
  BY <1>1, <1>2, <1>3, DeliveryKeeps DEF RunnerMove

LEMMA WorkerCrashKeeps ==
    ASSUME Inv, NEW w \in Worker, WorkerCrash(w)
    PROVE  Inv'
<1>1. worker[w].key \in Created
  BY DEF WorkerCrash, Inv, HubInv, DeliveriesInStep
<1>2. /\ WorkerMove(w) /\ RunnerMove /\ UNCHANGED <<web, exec>>
      /\ source' \in [Source -> SourceState] /\ broker' \subseteq Created
  BY <1>1, EndDeliveryMoves DEF WorkerCrash, RunnerMove, Inv, HubInv, HubTyped
<1> QED
  BY <1>1, <1>2, DeliveryKeeps DEF ExecMove

LEMMA DeadlinePassesKeeps ==
    ASSUME Inv, NEW k \in Key, DeadlinePasses(k)
    PROVE  Inv'
<1>1. PICK e \in SoundExecution : e = exec[k] /\ e.status = "running"
  BY DEF DeadlinePasses, Inv, HubInv, HubTyped
<1>2. PICK r : r = [e EXCEPT !.overdue = TRUE]
  OBVIOUS
<1>3. r \in SoundExecution /\ r.status = "running"
  BY <1>1, <1>2 DEF SoundExecution, Execution
<1>4. exec' = [exec EXCEPT ![k] = r]
  BY <1>1, <1>2 DEF DeadlinePasses
<1>5. k \in Created /\ ExecMove(k)
  BY <1>1, <1>3, <1>4 DEF Created, ExecMove, Terminal
<1>6. UNCHANGED <<source, web, broker, worker, runnerVars>>
  BY DEF DeadlinePasses
<1>7. source' \in [Source -> SourceState] /\ broker' \subseteq Created
  BY <1>6 DEF Inv, HubInv, HubTyped
<1>8. PICK w : w \notin Worker
  BY NoSetContainsEverything
<1> QED
  BY <1>5, <1>6, <1>7, <1>8, DeliveryKeeps DEF RunnerMove

-----------------------------------------------------------------------------
(* Runner and operators. *)

LEMMA RunnerKeeps ==
    ASSUME Inv, RunnerStep \/ RunnerRestart
    PROVE  Inv'
<1>1. RunnerMove /\ UNCHANGED hubVars
  BY DEF RunnerStep, RunnerRestart, RunnerMove
<1> QED
  BY <1>1, BackendIdle DEF hubVars, Inv, HubInv, HubTyped

\* An operator touches the source and nothing else.
LEMMA SourceOnly ==
    ASSUME Inv, UNCHANGED <<web, exec, broker, worker, runnerVars>>,
           source' \in [Source -> SourceState]
    PROVE  Inv'
<1>1. RunnerInv'
  BY RunnerKept DEF Inv, RunnerMove
<1>2. Created' = Created /\ UNCHANGED op
  BY DEF Created, runnerVars
<1>3. HubTyped' /\ RequestsInStep'
  BY <1>2 DEF Inv, HubInv, HubTyped, RequestsInStep
<1>4. DeliveriesInStep' /\ SuccessIsReal'
  BY <1>2 DEF Inv, HubInv, DeliveriesInStep, SuccessIsReal
<1> QED
  BY <1>1, <1>3, <1>4 DEF Inv, HubInv

LEMMA OperateKeeps ==
    ASSUME Inv, NEW name, NEW s \in Source, NEW before, NEW st \in SourceStatus,
           NEW c \in SourceContext, Operate(name, s, before, st, c)
    PROVE  Inv'
<1>1. source' \in [Source -> SourceState]
  BY SourceDecided DEF Operate, Inv
<1> QED
  BY <1>1, SourceOnly DEF Operate

LEMMA ReleaseKeeps ==
    ASSUME Inv, NEW s \in Release, OperateRelease(s)
    PROVE  Inv'
<1>1. s \in Source /\ source \in [Source -> SourceState]
  BY DEF Source, Inv, HubInv, HubTyped
<1>2. source[s].context \in SourceContext /\ source[s].version + 1 \in Nat
  <2>1. source[s].version \in Nat
    BY <1>1 DEF SourceState
  <2>2. source[s].context \in SourceContext
    BY <1>1 DEF SourceState, SourceContext
  <2> QED
    BY <2>1, <2>2
<1>3. /\ {"running", "cancelled", "success", "failed", "manual_required",
          "rollback_required", "rolled_back"} \subseteq SourceStatus
      /\ {"", "release", "rollback"} \subseteq SourceContext
  BY DEF SourceStatus, SourceContext
<1>4. CASE StartRelease(s)
  BY <1>1, <1>2, <1>3, <1>4, OperateKeeps DEF StartRelease
<1>5. CASE ResumeRelease(s)
  BY <1>1, <1>3, <1>5, OperateKeeps DEF ResumeRelease
<1>6. CASE CancelRelease(s)
  BY <1>1, <1>2, <1>3, <1>6, OperateKeeps DEF CancelRelease
<1>7. CASE RecordResult(s)
  <2>1. PICK st \in {"success", "failed", "manual_required"}, c \in {"", "release"} :
            Operate("record-result", s, {"running"}, st, c)
    BY <1>7 DEF RecordResult
  <2>2. st \in SourceStatus /\ c \in SourceContext
    BY <1>3
  <2> QED
    BY <1>1, <2>1, <2>2, OperateKeeps
<1>8. CASE RequireRollback(s)
  <2>1. PICK t : t = [status |-> "rollback_required", context |-> "",
                      rollbackApproved |-> FALSE, version |-> source[s].version + 1]
    OBVIOUS
  <2>2. t \in SourceState
    BY <1>2, <2>1 DEF SourceState, SourceStatus
  <2>3. source' \in [Source -> SourceState]
    BY <1>1, <1>8, <2>1, <2>2 DEF RequireRollback
  <2> QED
    BY <1>8, <2>3, SourceOnly DEF RequireRollback
<1>9. CASE ApproveRollback(s)
  <2>1. source' \in [Source -> SourceState]
    BY <1>1, <1>9, SourceApproved DEF ApproveRollback, Inv
  <2> QED
    BY <1>9, <2>1, SourceOnly DEF ApproveRollback
<1>10. CASE ApprovalExpires(s)
  <2>1. source' \in [Source -> SourceState]
    BY <1>1, <1>10, SourceApproved DEF ApprovalExpires, Inv
  <2> QED
    BY <1>10, <2>1, SourceOnly DEF ApprovalExpires
<1>11. CASE ResumeRollback(s)
  BY <1>1, <1>3, <1>11, OperateKeeps DEF ResumeRollback
<1>12. CASE RecordRollback(s)
  <2>1. PICK st \in {"rolled_back", "failed", "manual_required"}, c \in {"", "rollback"} :
            Operate("record-rollback", s, {"rollback_required"}, st, c)
    BY <1>12 DEF RecordRollback
  <2>2. st \in SourceStatus /\ c \in SourceContext
    BY <1>3
  <2> QED
    BY <1>1, <2>1, <2>2, OperateKeeps
<1> QED
  BY <1>4, <1>5, <1>6, <1>7, <1>8, <1>9, <1>10, <1>11, <1>12 DEF OperateRelease

LEMMA PerformanceKeeps ==
    ASSUME Inv, NEW s \in Performance, OperatePerformance(s)
    PROVE  Inv'
<1>1. s \in Source /\ "" \in SourceContext
      /\ {"cancelled", "success", "failed", "manual_required"} \subseteq SourceStatus
  BY DEF Source, SourceContext, SourceStatus
<1> QED
  BY <1>1, OperateKeeps DEF OperatePerformance

-----------------------------------------------------------------------------
(* The invariant, and what follows from it. *)

LEMMA InitInv == Init => Inv
<1> SUFFICES ASSUME Init PROVE Inv
  OBVIOUS
<1>1. RunnerInv
  BY RunnerStarts DEF Init
<1>2. PICK live \in Live, plan \in PlanAtRest :
           source = [s \in Source |-> NewSource(s, live, plan)]
  BY DEF Init
<1>3. source \in [Source -> SourceState]
  <2>1. /\ SourceAt("cancelled", "", FALSE) \in SourceState
        /\ SourceAt("approved", "", FALSE) \in SourceState
        /\ SourceAt("scheduled", "", FALSE) \in SourceState
        /\ SourceAt("rollback_required", "", FALSE) \in SourceState
        /\ SourceAt("manual_required", "release", FALSE) \in SourceState
        /\ SourceAt("manual_required", "rollback", TRUE) \in SourceState
    BY DEF SourceAt, SourceState, SourceStatus
  <2>2. plan \in SourceState
    BY <2>1, plan \in PlanAtRest DEF PlanAtRest
  <2>3. \A s \in Source : NewSource(s, live, plan) \in SourceState
    BY <2>1, <2>2 DEF NewSource
  <2> QED
    BY <1>2, <2>3
<1>4. NoRequest \in SoundRequest /\ NoRequest.pc = "new"
  BY DEF NoRequest, SoundRequest, Request, Kind
<1>5. NoExecution \in SoundExecution /\ NoExecution.status = "none"
  BY DEF NoExecution, SoundExecution, Execution, Kind
<1>6. Created = {} /\ exec \in [Key -> SoundExecution] /\ web \in [Key -> SoundRequest]
  BY <1>4, <1>5 DEF Init, Created
<1>7. worker \in [Worker -> Delivery] /\ \A w \in Worker : worker[w].pc = "idle"
  BY IdleDelivery DEF Init
<1>8. HubTyped
  BY <1>3, <1>6, <1>7 DEF Init, HubTyped
<1>9. RequestsInStep
  BY <1>4, <1>6 DEF Init, RequestsInStep, Unwritten
<1>10. DeliveriesInStep
  BY <1>7 DEF DeliveriesInStep
<1>11. SuccessIsReal
  BY <1>5 DEF Init, SuccessIsReal
<1> QED
  BY <1>1, <1>8, <1>9, <1>10, <1>11 DEF Inv, HubInv

LEMMA StepInv == Inv /\ [Next]_vars => Inv'
<1> SUFFICES ASSUME Inv, [Next]_vars PROVE Inv'
  OBVIOUS
<1>1. ASSUME NEW k \in Key, NEW s \in Source, NEW kind \in Kind, ReadSource(k, s, kind)
      PROVE  Inv'
  BY <1>1, ReadSourceKeeps
<1>2. ASSUME NEW k \in Key,
             \/ CheckActive(k) \/ CreateExecution(k)
             \/ Enqueue(k) \/ QueueUnavailable(k) \/ WebCrash(k)
      PROVE  Inv'
  BY <1>2, CheckActiveKeeps, CreateExecutionKeeps, WebKeeps
<1>3. ASSUME NEW k \in Key, DispatchStale(k) \/ DeadlinePasses(k) \/ Ignore(k) \/ Overdue(k)
      PROVE  Inv'
  BY <1>3, MessageKeeps, DeadlinePassesKeeps
<1>4. ASSUME NEW w \in Worker, NEW k \in Key, Take(w, k) PROVE Inv'
  BY <1>4, TakeKeeps
<1>5. ASSUME NEW w \in Worker, Post(w) \/ WorkerStep(w) \/ WorkerCrash(w) PROVE Inv'
  BY <1>5, PostKeeps, ReplyKeeps, RetryLaterKeeps, GiveUpKeeps, SaveProgressKeeps,
     RetryKeeps, WorkerCrashKeeps DEF WorkerStep
<1>6. CASE RunnerStep \/ RunnerRestart
  BY <1>6, RunnerKeeps
<1>7. ASSUME NEW s \in Release, OperateRelease(s) PROVE Inv'
  BY <1>7, ReleaseKeeps
<1>8. ASSUME NEW s \in Performance, OperatePerformance(s) PROVE Inv'
  BY <1>8, PerformanceKeeps
<1>9. CASE UNCHANGED vars
  BY <1>9, SourceOnly DEF vars, hubVars, Inv, HubInv, HubTyped
<1> QED
  BY <1>1, <1>2, <1>3, <1>4, <1>5, <1>6, <1>7, <1>8, <1>9 DEF Next

LEMMA InvariantHolds == Spec => []Inv
BY InitInv, StepInv, PTL DEF Spec

LEMMA InvTyped == Inv => TypeOK
<1> SUFFICES ASSUME Inv PROVE TypeOK
  OBVIOUS
<1>1. RunnerTypeOK
  BY RunnerSays DEF Inv
<1>2. /\ source \in [Source -> SourceState]
      /\ worker \in [Worker -> Delivery]
      /\ broker \subseteq Key
      /\ \A k \in broker : exec[k].status # "none"
  BY DEF Inv, HubInv, HubTyped, Created
<1>3. web \in [Key -> Request] /\ exec \in [Key -> Execution]
  BY DEF Inv, HubInv, HubTyped, SoundRequest, SoundExecution
<1>4. \A k \in Key :
        /\ exec[k].status # "none" => exec[k].source \in Source
        /\ web[k].pc \in {"read", "checked", "enqueue"} => web[k].source \in Source
  BY DEF Inv, HubInv, HubTyped, SoundRequest, SoundExecution
<1>5. \A k \in Key : web[k].pc = "enqueue" => exec[k].status # "none"
  BY DEF Inv, HubInv, RequestsInStep, Created
<1>6. \A k \in Key : op[k].phase # "idle" => op[k].env \in Env
  BY DEF Inv, RunnerInv, SoundOperation
<1>7. \A w \in Worker :
        worker[w].pc # "idle" => worker[w].key \in Key /\ exec[worker[w].key].status # "none"
  BY DEF Inv, HubInv, DeliveriesInStep, Created
<1> QED
  BY <1>1, <1>2, <1>3, <1>4, <1>5, <1>6, <1>7 DEF TypeOK

\* The state of the runner and of the backend always has its type, and what is
\* on its way is about an execution that exists.
THEOREM TypeCorrect == Spec => []TypeOK
BY InvariantHolds, InvTyped, PTL

\* However requests are repeated, delivered again or interrupted, a command is
\* started at most once.
THEOREM CommandStartedOnce == Spec => []CommandOnce
<1>1. Inv => CommandOnce
  BY RunnerSays DEF Inv
<1> QED
  BY <1>1, InvariantHolds, PTL

\* Two commands never run in one environment at once.
THEOREM EnvironmentsExclusive == Spec => []EnvironmentExclusive
<1>1. Inv => EnvironmentExclusive
  BY RunnerSays DEF Inv
<1> QED
  BY <1>1, InvariantHolds, PTL

\* An execution is shown as succeeded only if its command exited with zero.
THEOREM SuccessesReal == Spec => []SuccessIsReal
<1>1. Inv => SuccessIsReal
  BY DEF Inv, HubInv
<1> QED
  BY <1>1, InvariantHolds, PTL

-----------------------------------------------------------------------------
(* Verdicts stand. *)

LEMMA FinishStands ==
    ASSUME Inv, NEW k \in Key, exec[k].status \in Terminal, NEW l \in Key, NEW target,
           Finish(l, target)
    PROVE  exec'[k].status = exec[k].status
<1>1. CASE l = k
  BY <1>1 DEF Finish
<1>2. CASE l # k
  BY <1>2 DEF Finish, Verdict, Inv, HubInv, HubTyped
<1> QED
  BY <1>1, <1>2

\* A row that is active, or does not exist, is rewritten; no other.
LEMMA OtherRow ==
    ASSUME Inv, NEW k \in Key, exec[k].status \in Terminal,
           NEW l \in Key, exec[l].status \notin Terminal, NEW r, exec' = [exec EXCEPT ![l] = r]
    PROVE  exec'[k].status = exec[k].status
BY DEF Inv, HubInv, HubTyped

LEMMA StepVerdict ==
    ASSUME Inv, [Next]_vars, NEW k \in Key, exec[k].status \in Terminal
    PROVE  exec'[k].status = exec[k].status
<1>1. CASE UNCHANGED exec
  BY <1>1
<1>2. ASSUME NEW l \in Key, NEW target, Finish(l, target)
      PROVE  exec'[k].status = exec[k].status
  BY <1>2, FinishStands
<1>3. \A w \in Worker : worker[w].pc # "idle" => worker[w].key \in Key
  BY DEF Inv, HubInv, DeliveriesInStep, Created
<1>4. ASSUME NEW l \in Key, CreateExecution(l) PROVE exec'[k].status = exec[k].status
  <2>1. exec[l].status \notin Terminal
    BY <1>4 DEF CreateExecution, Inv, HubInv, RequestsInStep, Unwritten, Created, Terminal
  <2> QED
    BY <1>4, <2>1, OtherRow DEF CreateExecution
<1>5. ASSUME NEW l \in Key, QueueUnavailable(l) \/ Overdue(l)
      PROVE  exec'[k].status = exec[k].status
  BY <1>2, <1>5 DEF QueueUnavailable, Overdue
<1>6. ASSUME NEW l \in Key, DeadlinePasses(l) PROVE exec'[k].status = exec[k].status
  <2>1. exec[l].status \notin Terminal
    BY <1>6 DEF DeadlinePasses, Terminal
  <2>2. exec' = [exec EXCEPT ![l] = [exec[l] EXCEPT !.overdue = TRUE]]
    BY <1>6 DEF DeadlinePasses
  <2> QED
    BY <2>1, <2>2, OtherRow
<1>7. ASSUME NEW w \in Worker, NEW l \in Key, Take(w, l)
      PROVE  exec'[k].status = exec[k].status
  <2>1. exec[l].status \notin Terminal
    BY <1>7 DEF Take, Active, Terminal
  <2>2. exec' = [exec EXCEPT ![l] = [exec[l] EXCEPT !.status = "running"]]
    BY <1>7 DEF Take
  <2> QED
    BY <2>1, <2>2, OtherRow
<1>8. ASSUME NEW w \in Worker, WorkerStep(w) PROVE exec'[k].status = exec[k].status
  <2>1. CASE Reply(w) \/ RetryLater(w)
    BY <1>1, <2>1 DEF Reply, RetryLater
  <2>2. CASE GiveUp(w) \/ SaveResult(w)
    BY <1>2, <1>3, <2>2 DEF GiveUp, SaveResult
  <2>3. CASE Retry(w)
    BY <1>1, <1>2, <1>3, <2>3 DEF Retry
  <2>4. CASE SaveProgress(w)
    <3>1. CASE exec[worker[w].key].status \in Active
      <4>1. worker[w].key \in Key /\ exec[worker[w].key].status \notin Terminal
        BY <1>3, <2>4, <3>1 DEF SaveProgress, Active, Terminal
      <4>2. exec' = [exec EXCEPT ![worker[w].key] =
                        [exec[worker[w].key] EXCEPT !.known = TRUE, !.status = "running"]]
        BY <2>4, <3>1 DEF SaveProgress
      <4> QED
        BY <4>1, <4>2, OtherRow
    <3>2. CASE exec[worker[w].key].status \notin Active
      BY <2>4, <3>2 DEF SaveProgress
    <3> QED
      BY <3>1, <3>2
  <2> QED
    BY <1>8, <2>1, <2>2, <2>3, <2>4 DEF WorkerStep
<1>9. ASSUME NEW s \in Release, OperateRelease(s) PROVE UNCHANGED exec
  BY <1>9 DEF OperateRelease, StartRelease, ResumeRelease, CancelRelease, RecordResult,
     RequireRollback, ApproveRollback, ApprovalExpires, ResumeRollback, RecordRollback, Operate
<1>10. ASSUME NEW s \in Performance, OperatePerformance(s) PROVE UNCHANGED exec
  BY <1>10 DEF OperatePerformance, Operate
<1>11. ASSUME NEW l \in Key,
              \/ CheckActive(l) \/ Enqueue(l) \/ WebCrash(l) \/ DispatchStale(l) \/ Ignore(l)
              \/ \E s \in Source, kind \in Kind : ReadSource(l, s, kind)
       PROVE  UNCHANGED exec
  BY <1>11 DEF CheckActive, Enqueue, WebCrash, DispatchStale, Publish, Ignore, ReadSource
<1>12. ASSUME NEW w \in Worker, Post(w) \/ WorkerCrash(w) PROVE UNCHANGED exec
  BY <1>12 DEF Post, WorkerCrash, hubVars
<1>13. CASE RunnerStep \/ RunnerRestart \/ UNCHANGED vars
  BY <1>1, <1>13 DEF RunnerStep, RunnerRestart, vars, hubVars
<1> QED
  BY <1>1, <1>4, <1>5, <1>6, <1>7, <1>8, <1>9, <1>10, <1>11, <1>12, <1>13 DEF Next

\* The verdict of an execution stands: no late answer, repeated message or stale
\* delivery changes it.
THEOREM VerdictsFinal == Spec => VerdictFinal
<1>1. Inv /\ [Next]_vars =>
        [\A k \in Key : exec[k].status \in Terminal => exec'[k].status = exec[k].status]_vars
  BY StepVerdict
<1> QED
  BY <1>1, InvariantHolds, PTL DEF Spec, VerdictFinal
=============================================================================
