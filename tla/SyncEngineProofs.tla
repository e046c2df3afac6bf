-------------------------- MODULE SyncEngineProofs --------------------------
(***************************************************************************)
(* Theorems about SyncEngine, for every number of workers, occurrences,    *)
(* requests, pages, slices, retries and faults.                            *)
(***************************************************************************)
EXTENDS SyncEngine, TLAPS

-----------------------------------------------------------------------------
(* What the helpers of the actions return.                                 *)

\* What a worker holds, and the rows its key names, are well typed.
LEMMA TaskTyped ==
    ASSUME TypeOK, NEW w \in Worker
    PROVE  /\ worker[w] \in TaskState
           /\ worker[w].seq \in 0..MaxSlices
           /\ worker[w].page \in Nat /\ worker[w].pages \in Nat
           /\ worker[w].pc # "idle" => worker[w].key \in Key /\ runs[worker[w].key] \in RunState
BY DEF TypeOK, TaskState

LEMMA IdleTyped == Idle \in TaskState
BY SyncAssumption DEF Idle, TaskState, NoPage, Phase

\* A task counts pages in natural numbers.
LEMMA TaskNumbers ==
    ASSUME NEW t \in TaskState
    PROVE  t.pages + 1 \in Nat /\ t.page + 1 \in Nat
BY DEF TaskState

\* A task may be replaced by a task.
LEMMA TaskReplaced ==
    ASSUME TypeOK, NEW w \in Worker, NEW t \in TaskState,
           worker' = [worker EXCEPT ![w] = t]
    PROVE  worker' \in [Worker -> TaskState]
BY DEF TypeOK

\* Step leaves every task well typed.
LEMMA StepTyped ==
    ASSUME TypeOK, NEW w \in Worker, NEW pc \in Phase, worker[w].pc # "idle", Step(w, pc)
    PROVE  worker' \in [Worker -> TaskState]
<1>1. worker[w] \in TaskState
  BY DEF TypeOK
<1>2. [worker[w] EXCEPT !.pc = pc] \in TaskState
  BY <1>1 DEF TaskState
<1>3. worker' = [worker EXCEPT ![w] = [worker[w] EXCEPT !.pc = pc]]
  BY DEF Step
<1> QED
  BY <1>2, <1>3, TaskReplaced

\* EndTask leaves tasks and broker well typed.
LEMMA EndTaskTyped ==
    ASSUME TypeOK, NEW w \in Worker, EndTask(w)
    PROVE  worker' \in [Worker -> TaskState] /\ broker' \subseteq Message
BY IdleTyped, TaskReplaced DEF EndTask, TypeOK

\* Leave keeps key and slice of the task, and is well typed.
LEMMA LeaveTyped ==
    ASSUME TypeOK, NEW w \in Worker, NEW pc \in Phase, worker[w].pc # "idle",
           NEW r \in {"none", "queued", "running", "success", "failed"}, Leave(w, pc, r)
    PROVE  worker' \in [Worker -> TaskState]
<1>1. worker[w].key \in Key /\ worker[w].seq \in 0..MaxSlices
  BY TaskTyped
<1>2. PICK k \in Key, s \in 0..MaxSlices : k = worker[w].key /\ s = worker[w].seq
  BY <1>1
<1>3. ASSUME NEW t \in TaskState
      PROVE  [t EXCEPT !.pc = pc, !.key = k, !.seq = s, !.result = r] \in TaskState
  BY <1>2 DEF TaskState
<1>4. PICK t \in TaskState :
          t = [Idle EXCEPT !.pc = pc, !.key = k, !.seq = s, !.result = r]
  BY <1>3, IdleTyped, Zenon
<1>5. worker' = [worker EXCEPT ![w] = t]
  BY <1>2, <1>4 DEF Leave, Idle
<1> QED
  BY <1>5, TaskReplaced

\* A job whose lock is given back is a job.
LEMMA ReleasedTyped ==
    ASSUME job \in JobState, NEW st \in {"idle", "running", "failed", "disabled"}
    PROVE  Released(st) \in JobState
BY DEF Released, JobState

\* A run may be replaced by a run, a dispatch by a dispatch.
LEMMA RunReplaced ==
    ASSUME runs \in [Key -> RunState], NEW k \in Key, NEW r \in RunState
    PROVE  [runs EXCEPT ![k] = r] \in [Key -> RunState]
OBVIOUS

\* The status of one dispatch may change.
LEMMA DispatchMarked ==
    ASSUME dispatch \in [Occurrence -> DispatchState], NEW d \in Occurrence,
           NEW st \in {"none", "queued", "running"} \cup Ended
    PROVE  [dispatch EXCEPT ![d].status = st] \in [Occurrence -> DispatchState]
<1>1. dispatch[d] \in DispatchState
  OBVIOUS
<1>2. [dispatch[d] EXCEPT !.status = st] \in DispatchState
  BY <1>1 DEF DispatchState
<1> QED
  BY <1>2

\* A new run is well typed ...
LEMMA NewRunTyped == NoRun \in RunState /\ NewRun \in RunState
<1>1. NoRun \in RunState
  <2>1. {} \in SUBSET (0..MaxSlices)
    OBVIOUS
  <2>2. 0 \in 0..MaxSlices /\ 0 \in 0..MaxRetries /\ 0 \in 0..MaxWaits
    BY SyncAssumption
  <2> QED
    BY <2>1, <2>2 DEF NoRun, RunState
<1>2. [NoRun EXCEPT !.status = "queued"] \in RunState
  BY <1>1 DEF RunState
<1> QED
  BY <1>1, <1>2 DEF NewRun

\* ... and so are the failed runs and the closed dispatches of a recovery.
LEMMA FailedRunsTyped ==
    ASSUME runs \in [Key -> RunState]
    PROVE  FailedRuns \in [Key -> RunState]
<1>1. ASSUME NEW k \in Key PROVE [runs[k] EXCEPT !.status = "failed"] \in RunState
  BY <1>1 DEF RunState
<1> QED
  BY <1>1 DEF FailedRuns

LEMMA ReconciledTyped ==
    ASSUME TypeOK
    PROVE  Reconciled \in [Occurrence -> DispatchState]
<1>1. ASSUME NEW d \in Occurrence, runs[d].status \in {"success", "failed"}
      PROVE  [dispatch[d] EXCEPT !.status = runs[d].status] \in DispatchState
  <2>1. dispatch[d] \in DispatchState
    BY DEF TypeOK
  <2> QED
    BY <1>1, <2>1 DEF DispatchState, Ended
<1> QED
  BY <1>1 DEF Reconciled, TypeOK

LEMMA SeenTyped ==
    ASSUME TypeOK
    PROVE  SeenJob \in JobState /\ SeenRuns \in [Key -> RunState]
BY FailedRunsTyped, ReleasedTyped DEF SeenJob, SeenRuns, TypeOK

\* The run a page transaction saves is well typed, and so is the written count.
LEMMA SavedRunTyped ==
    ASSUME TypeOK, NEW w \in Worker, worker[w].pc # "idle"
    PROVE  SavedRun(w) \in RunState
BY TaskTyped DEF SavedRun, RunState

LEMMA PageWrittenTyped ==
    ASSUME TypeOK, NEW w \in Worker, PageWritten(w)
    PROVE  written' \in [Key -> Nat]
<1>1. \A k \in Key : written[k] + 1 \in Nat
  BY DEF TypeOK
<1> QED
  BY ONLY <1>1, PageWritten(w), TypeOK DEF PageWritten, TypeOK

\* A yield leaves all that it changes well typed.
LEMMA YieldedTyped ==
    ASSUME TypeOK, NEW w \in Worker, worker[w].pc # "idle", NEW run \in RunState, Yielded(w, run)
    PROVE  /\ job' \in JobState
           /\ runs' \in [Key -> RunState]
           /\ dispatch' \in [Occurrence -> DispatchState]
           /\ worker' \in [Worker -> TaskState]
<1>1. job' \in JobState
  BY ReleasedTyped DEF Yielded, TypeOK
<1>2. [run EXCEPT !.status = "queued", !.seq = run.seq + 1, !.pending = TRUE] \in RunState
  <2>1. run.seq + 1 \in 0..MaxSlices
    BY SyncAssumption DEF Yielded, RunState
  <2> QED
    BY <2>1 DEF RunState
<1>3. runs' \in [Key -> RunState]
  BY <1>2, TaskTyped, RunReplaced DEF Yielded, TypeOK
<1>4. dispatch' \in [Occurrence -> DispatchState]
  BY DispatchMarked DEF Yielded, TypeOK
<1>5. worker' \in [Worker -> TaskState]
  BY LeaveTyped DEF Yielded, Phase
<1> QED
  BY <1>1, <1>3, <1>4, <1>5

-----------------------------------------------------------------------------
(* Every step keeps the types.                                             *)

\* What a task does up to the lease: receive, claim, defer, reject.
LEMMA ClaimStepTyped ==
    ASSUME TypeOK, NEW w \in Worker,
           \/ \E m \in broker : Receive(w, m)
           \/ Claim(w) \/ ClaimRefused(w) \/ Defer(w) \/ RejectPreflight(w)
    PROVE  TypeOK'
<1>1. ASSUME NEW m \in broker, Receive(w, m) PROVE TypeOK'
  <2>1. m.key \in Key /\ m.seq \in 0..MaxSlices
    BY DEF TypeOK, Message
  <2>2. ASSUME NEW pc \in Phase, NEW t \in TaskState
        PROVE  [t EXCEPT !.pc = pc, !.key = m.key, !.seq = m.seq] \in TaskState
    BY <2>1 DEF TaskState
  <2>3. ASSUME NEW pc \in Phase
        PROVE  [Idle EXCEPT !.pc = pc, !.key = m.key, !.seq = m.seq] \in TaskState
    BY <2>2, IdleTyped, Zenon
  <2>4. PICK t \in TaskState :
            t = [Idle EXCEPT !.pc = IF m.key \in Occurrence THEN "received" ELSE "claimed",
                             !.key = m.key, !.seq = m.seq]
    <3>1. (IF m.key \in Occurrence THEN "received" ELSE "claimed") \in Phase
      BY DEF Phase
    <3> QED
      BY <2>3, <3>1, Zenon
  <2>5. worker' = worker \/ worker' = [worker EXCEPT ![w] = t]
    BY <1>1, <2>4, Zenon DEF Receive
  <2>6. worker' \in [Worker -> TaskState]
    BY <2>5, TaskReplaced DEF TypeOK
  <2>7. broker' \subseteq broker
    BY <1>1 DEF Receive
  <2> QED
    BY <1>1, <2>6, <2>7 DEF Receive, TypeOK
<1>2. CASE Claim(w)
  <2>1. dispatch' \in [Occurrence -> DispatchState]
    BY <1>2, DispatchMarked DEF Claim, TypeOK
  <2>2. worker' \in [Worker -> TaskState]
    BY <1>2, StepTyped DEF Claim, Phase
  <2> QED
    BY <1>2, <2>1, <2>2 DEF Claim, TypeOK
<1>3. CASE ClaimRefused(w)
  <2>1. dispatch' \in [Occurrence -> DispatchState]
    BY <1>3, DispatchMarked DEF ClaimRefused, TypeOK, Ended
  <2> QED
    BY <1>3, <2>1, EndTaskTyped DEF ClaimRefused, TypeOK
<1>4. CASE Defer(w)
  <2>1. worker[w].key \in Key /\ runs[worker[w].key] \in RunState
    BY <1>4, TaskTyped DEF Defer
  <2>2. PICK k \in Key : k = worker[w].key
    BY <2>1
  <2>3. PICK r \in RunState :
            /\ r = IF runs[k].status = "absent" THEN NewRun ELSE runs[k]
            /\ r.waits < MaxWaits
    <3>1. NewRun.waits = 0
      BY DEF NewRun, NoRun
    <3>2. runs[k].waits < MaxWaits /\ runs[k].waits \in Nat /\ MaxWaits \in Nat
      BY <1>4, <2>1, <2>2, SyncAssumption DEF Defer, RunState
    <3> QED
      BY <3>1, <3>2, <2>1, <2>2, NewRunTyped
  <2>4. [r EXCEPT !.pending = TRUE, !.waits = r.waits + 1] \in RunState
    <3>1. r.waits + 1 \in 0..MaxWaits
      BY <2>3, SyncAssumption DEF RunState
    <3> QED
      BY <3>1 DEF RunState
  <2>5. runs' \in [Key -> RunState]
    <3>1. runs' = [runs EXCEPT ![k] = [r EXCEPT !.pending = TRUE, !.waits = r.waits + 1]]
      BY <1>4, <2>2, <2>3 DEF Defer
    <3> QED
      BY <3>1, <2>4, RunReplaced DEF TypeOK
  <2>6. dispatch' \in [Occurrence -> DispatchState]
    <3>1. ASSUME NEW d \in Occurrence
          PROVE  [dispatch[d] EXCEPT !.status = "queued", !.linked = TRUE] \in DispatchState
      BY DEF TypeOK, DispatchState
    <3> QED
      BY <1>4, <3>1 DEF Defer, TypeOK
  <2> QED
    BY <1>4, <2>5, <2>6, EndTaskTyped DEF Defer, TypeOK
<1>5. CASE RejectPreflight(w)
  <2>1. worker' \in [Worker -> TaskState]
    BY <1>5, StepTyped DEF RejectPreflight, Phase
  <2> QED
    BY <1>5, <2>1 DEF RejectPreflight, TypeOK
<1> QED
  BY <1>1, <1>2, <1>3, <1>4, <1>5

\* How the transaction of run_sync_job ends.
LEMMA AcquireStepTyped ==
    ASSUME TypeOK, NEW w \in Worker, AnswerExisting(w) \/ Acquire(w) \/ RefuseAcquire(w)
    PROVE  TypeOK'
<1>1. CASE AnswerExisting(w)
  <2>1. worker[w].key \in Key
    BY <1>1, TaskTyped DEF AnswerExisting
  <2>2. SeenRuns[worker[w].key].status \in {"none", "queued", "running", "success", "failed"}
    <3>1. SeenRuns[worker[w].key] \in RunState
      BY <2>1, SeenTyped
    <3> QED
      BY <1>1, <3>1 DEF AnswerExisting, Answered, RunState
  <2>3. worker' \in [Worker -> TaskState]
    BY <1>1, <2>2, LeaveTyped DEF AnswerExisting, Phase
  <2> QED
    BY <1>1, <2>3, SeenTyped DEF AnswerExisting, TypeOK
<1>2. CASE Acquire(w)
  <2>1. worker[w].key \in Key /\ worker[w] \in TaskState /\ worker[w].seq \in 0..MaxSlices
    BY <1>2, TaskTyped DEF Acquire
  <2>2. PICK k \in Key, s \in 0..MaxSlices : k = worker[w].key /\ s = worker[w].seq
    BY <2>1
  <2>3. PICK r \in RunState : r = IF SeenRuns[k].status = "absent" THEN NewRun ELSE SeenRuns[k]
    BY SeenTyped, NewRunTyped
  <2>4. [r EXCEPT !.status = "running", !.seq = s, !.pending = FALSE,
                  !.started = r.started \cup {s}] \in RunState
    BY <2>2 DEF RunState
  <2>5. runs' \in [Key -> RunState]
    <3>1. runs' = [SeenRuns EXCEPT ![k] = [r EXCEPT !.status = "running", !.seq = s,
                       !.pending = FALSE, !.started = r.started \cup {s}]]
      BY <1>2, <2>2, <2>3 DEF Acquire
    <3> QED
      BY <3>1, <2>4, SeenTyped
  <2>6. dispatch' \in [Occurrence -> DispatchState]
    <3>1. ASSUME NEW d \in Occurrence
          PROVE  [dispatch[d] EXCEPT !.linked = TRUE] \in DispatchState
      BY DEF TypeOK, DispatchState
    <3> QED
      BY <1>2, <3>1 DEF Acquire, TypeOK
  <2>7. worker' \in [Worker -> TaskState]
    <3>1. r.pages \in Nat /\ cursor \in Nat
      BY SyncAssumption DEF RunState, TypeOK
    <3>2. [worker[w] EXCEPT !.pc = "loop", !.cursor = cursor, !.pages = r.pages] \in TaskState
      BY <2>1, <3>1 DEF TaskState, Phase, InRun
    <3>3. worker' = [worker EXCEPT ![w] =
              [worker[w] EXCEPT !.pc = "loop", !.cursor = cursor, !.pages = r.pages]]
      BY <1>2, <2>2, <2>3 DEF Acquire
    <3> QED
      BY <3>2, <3>3, TaskReplaced
  <2>8. job' \in JobState
    BY <1>2, <2>1 DEF Acquire, TypeOK, JobState
  <2> QED
    BY <1>2, <2>5, <2>6, <2>7, <2>8 DEF Acquire, TypeOK
<1>3. CASE RefuseAcquire(w)
  <2>1. worker' \in [Worker -> TaskState]
    BY <1>3, StepTyped DEF RefuseAcquire, Phase
  <2> QED
    BY <1>3, <2>1 DEF RefuseAcquire, TypeOK
<1> QED
  BY <1>1, <1>2, <1>3

\* Reading cursor and run again changes neither the phase nor the run of a task.
LEMMA RefreshedTask ==
    ASSUME TypeOK, NEW w \in Worker, worker[w].pc # "idle", NEW lockError \in BOOLEAN
    PROVE  /\ Refreshed(w, lockError) \in TaskState
           /\ Refreshed(w, lockError).pc = worker[w].pc
           /\ Refreshed(w, lockError).key = worker[w].key
<1>1. worker[w] \in TaskState /\ worker[w].key \in Key /\ runs[worker[w].key] \in RunState
  BY TaskTyped
<1>2. runs[worker[w].key].pages \in Nat /\ cursor \in Nat /\ NoPage \in Nat
  BY <1>1, SyncAssumption DEF RunState, TypeOK, NoPage
<1> QED
  BY <1>1, <1>2 DEF Refreshed, TaskState

\* The page loop up to the commit, and the errors that end or repeat it.
LEMMA LoopStepTyped ==
    ASSUME TypeOK, NEW w \in Worker,
           \/ Renew(w) \/ Fetch(w) \/ RenewForCommit(w) \/ CommitFails(w)
           \/ ErrorNotOwner(w) \/ Retry(w) \/ GiveUp(w) \/ FailRun(w)
    PROVE  TypeOK'
<1> USE DEF RunUnchanged
<1>1. CASE Renew(w)
  <2>1. worker' \in [Worker -> TaskState]
    BY <1>1, StepTyped DEF Renew, Phase, InRun
  <2> QED
    BY <1>1, <2>1 DEF Renew, TypeOK
<1>2. CASE Fetch(w)
  <2>1. CASE worker' = [worker EXCEPT ![w].pc = "fetched", ![w].page = worker[w].cursor]
    <3>1. PICK t \in TaskState : t = worker[w] /\ t.pc # "idle"
      BY <1>2, TaskTyped DEF Fetch
    <3>2. [t EXCEPT !.pc = "fetched", !.page = t.cursor] \in TaskState
      BY <3>1 DEF TaskState, Phase, InRun
    <3>3. PICK u \in TaskState : u = [t EXCEPT !.pc = "fetched", !.page = t.cursor]
      BY <3>2
    <3>4. worker' = [worker EXCEPT ![w] = u]
      BY <2>1, <3>1, <3>3
    <3>5. worker' \in [Worker -> TaskState]
      BY <3>4, TaskReplaced
    <3> QED
      BY <1>2, <3>5 DEF Fetch, TypeOK
  <2>2. CASE Step(w, "error")
    <3>1. worker' \in [Worker -> TaskState]
      BY <1>2, <2>2, StepTyped DEF Fetch, Phase, InRun
    <3> QED
      BY <1>2, <3>1 DEF Fetch, TypeOK
  <2> QED
    BY <1>2, <2>1, <2>2 DEF Fetch
<1>3. CASE RenewForCommit(w)
  <2>1. worker' \in [Worker -> TaskState]
    BY <1>3, StepTyped DEF RenewForCommit, Phase, InRun
  <2> QED
    BY <1>3, <2>1 DEF RenewForCommit, TypeOK
<1>4. CASE CommitFails(w)
  <2>1. worker[w].pc # "idle" /\ worker[w] \in TaskState
    BY <1>4, TaskTyped DEF CommitFails
  <2>2. PICK t \in TaskState, p \in Nat, n \in Nat :
            t = worker[w] /\ t.pc # "idle" /\ p = worker[w].pages + 1 /\ n = NextCursor(w)
    <3>1. PICK t \in TaskState : t = worker[w] /\ t.pc # "idle"
      BY <2>1
    <3>2. t.pages + 1 \in Nat /\ t.page + 1 \in Nat
      BY <3>1, TaskNumbers
    <3> QED
      BY <3>1, <3>2 DEF NextCursor
  <2>3. [t EXCEPT !.pc = "error", !.pages = p, !.cursor = n] \in TaskState
    BY <2>2 DEF TaskState, Phase, InRun
  <2>4. worker' \in [Worker -> TaskState]
    <3>1. worker' = [worker EXCEPT ![w] = [t EXCEPT !.pc = "error", !.pages = p, !.cursor = n]]
      BY <1>4, <2>2 DEF CommitFails
    <3> QED
      BY <3>1, <2>3, TaskReplaced
  <2> QED
    BY <1>4, <2>4 DEF CommitFails, TypeOK
<1>5. CASE ErrorNotOwner(w)
  <2>1. worker' \in [Worker -> TaskState]
    BY <1>5, LeaveTyped DEF ErrorNotOwner, Phase
  <2> QED
    BY <1>5, <2>1 DEF ErrorNotOwner, TypeOK
<1>6. ASSUME worker[w].pc = "error", NEW lockError \in BOOLEAN
      PROVE  Refreshed(w, lockError) \in TaskState /\ Refreshed(w, lockError).pc # "idle"
  BY <1>6, RefreshedTask
<1>7. CASE Retry(w)
  <2>1. PICK lockError \in BOOLEAN :
            /\ IF lockError THEN worker[w].locks < MaxLockRetries
                            ELSE runs[worker[w].key].retries < MaxRetries
            /\ worker' = [worker EXCEPT ![w] = [Refreshed(w, lockError) EXCEPT
                  !.pc = "loop", !.locks = IF lockError THEN @ + 1 ELSE @]]
    BY <1>7 DEF Retry
  <2>2. PICK t \in TaskState : t = Refreshed(w, lockError) /\ t.pc # "idle"
    BY <1>6, <1>7 DEF Retry
  <2>3. t.locks = worker[w].locks
    BY <2>2 DEF Refreshed
  <2>4. [t EXCEPT !.pc = "loop", !.locks = IF lockError THEN t.locks + 1 ELSE t.locks] \in TaskState
    <3>1. (IF lockError THEN t.locks + 1 ELSE t.locks) \in 0..MaxLockRetries
      BY <2>1, <2>2, <2>3, SyncAssumption DEF TaskState
    <3> QED
      BY <2>2, <3>1 DEF TaskState, Phase, InRun
  <2>5. worker' \in [Worker -> TaskState]
    BY <2>1, <2>2, <2>4, TaskReplaced
  <2>6. runs' \in [Key -> RunState]
    <3>1. ASSUME NEW k \in Key
          PROVE  [runs[k] EXCEPT !.retries = IF runs[k].retries < MaxRetries
                                             THEN runs[k].retries + 1 ELSE runs[k].retries]
                 \in RunState
      <4>1. runs[k] \in RunState
        BY DEF TypeOK
      <4>2. (IF runs[k].retries < MaxRetries
             THEN runs[k].retries + 1 ELSE runs[k].retries) \in 0..MaxRetries
        BY <4>1, SyncAssumption DEF RunState
      <4> QED
        BY <4>1, <4>2 DEF RunState
    <3> QED
      BY <1>7, <3>1 DEF Retry, TypeOK
  <2> QED
    BY <1>7, <2>5, <2>6 DEF Retry, TypeOK
<1>8. CASE GiveUp(w)
  <2>1. PICK t \in TaskState : t = Refreshed(w, FALSE) /\ t.pc # "idle"
    BY <1>6, <1>8 DEF GiveUp
  <2>2. [t EXCEPT !.pc = "failing"] \in TaskState
    BY <2>1 DEF TaskState, Phase, InRun
  <2>3. worker' \in [Worker -> TaskState]
    BY <1>8, <2>1, <2>2, TaskReplaced DEF GiveUp
  <2> QED
    BY <1>8, <2>3 DEF GiveUp, TypeOK
<1>9. CASE FailRun(w)
  <2>1. worker[w].key \in Key /\ worker[w].pages \in Nat
    BY <1>9, TaskTyped DEF FailRun
  <2>2. [runs[worker[w].key] EXCEPT !.status = "failed", !.pages = worker[w].pages] \in RunState
    <3>1. PICK r \in RunState, p \in Nat : r = runs[worker[w].key] /\ p = worker[w].pages
      BY <2>1 DEF TypeOK
    <3>2. [r EXCEPT !.status = "failed", !.pages = p] \in RunState
      BY ONLY r \in RunState, p \in Nat DEF RunState
    <3> QED
      BY <3>1, <3>2
  <2>3. runs' \in [Key -> RunState]
    BY <1>9, <2>1, <2>2, RunReplaced DEF FailRun, TypeOK
  <2>4. worker' \in [Worker -> TaskState]
    BY <1>9, LeaveTyped DEF FailRun, Phase
  <2> QED
    BY <1>9, <2>3, <2>4, ReleasedTyped DEF FailRun, TypeOK
<1> QED
  BY <1>1, <1>2, <1>3, <1>4, <1>5, <1>7, <1>8, <1>9

\* The commits and yields.
LEMMA CommitStepTyped ==
    ASSUME TypeOK, NEW w \in Worker,
           YieldForCredential(w) \/ CommitPage(w) \/ CommitAndYield(w) \/ CommitLastPage(w)
    PROVE  TypeOK'
<1>1. CASE YieldForCredential(w)
  <2>1. worker[w].pc # "idle" /\ runs[worker[w].key] \in RunState
    BY <1>1, TaskTyped DEF YieldForCredential
  <2>2. Yielded(w, runs[worker[w].key])
    BY <1>1 DEF YieldForCredential
  <2>3. UNCHANGED <<cursor, written, broker, unsent, faults, switches>>
    BY <1>1 DEF YieldForCredential, Yielded
  <2> QED
    BY <2>1, <2>2, <2>3, YieldedTyped DEF TypeOK
<1>2. ASSUME worker[w].pc = "commit", NextCursor(w) < MaxPages
      PROVE  NextCursor(w) \in 0..MaxPages
  BY <1>2, TaskTyped, SyncAssumption DEF NextCursor
<1>3. CASE CommitPage(w)
  <2>1. worker[w].key \in Key /\ worker[w] \in TaskState
    BY <1>3, TaskTyped DEF CommitPage
  <2>2. runs' \in [Key -> RunState]
    BY <1>3, <2>1, SavedRunTyped, RunReplaced DEF CommitPage, TypeOK
  <2>3. PICK t \in TaskState, p \in Nat, n \in Nat :
            t = worker[w] /\ t.pc # "idle" /\ p = worker[w].pages + 1 /\ n = NextCursor(w)
    <3>1. worker[w].pc # "idle" /\ worker[w].pages + 1 \in Nat /\ NextCursor(w) \in Nat
      BY <1>3, TaskTyped DEF NextCursor, CommitPage
    <3> QED
      BY <2>1, <3>1, Zenon
  <2>4. worker' \in [Worker -> TaskState]
    <3>1. 0 \in 0..MaxLockRetries /\ NoPage \in Nat
      BY SyncAssumption DEF NoPage
    <3>2. [t EXCEPT !.pc = "loop", !.cursor = n, !.pages = p, !.page = NoPage, !.locks = 0]
            \in TaskState
      BY <2>3, <3>1 DEF TaskState, Phase, InRun
    <3>3. worker' = [worker EXCEPT ![w] =
              [t EXCEPT !.pc = "loop", !.cursor = n, !.pages = p, !.page = NoPage, !.locks = 0]]
      BY <1>3, <2>3 DEF CommitPage
    <3> QED
      BY <3>2, <3>3, TaskReplaced
  <2> QED
    BY <1>2, <1>3, <2>2, <2>4, PageWrittenTyped DEF CommitPage, TypeOK
<1>4. CASE CommitAndYield(w)
  <2>1. SavedRun(w) \in RunState /\ worker[w].pc # "idle"
    BY <1>4, SavedRunTyped DEF CommitAndYield
  <2>2. Yielded(w, SavedRun(w)) /\ written' \in [Key -> Nat] /\ cursor' \in 0..MaxPages
    BY <1>2, <1>4, PageWrittenTyped DEF CommitAndYield
  <2>3. UNCHANGED <<broker, unsent, faults, switches>>
    BY <2>2 DEF Yielded
  <2> QED
    BY <2>1, <2>2, <2>3, YieldedTyped DEF TypeOK
<1>5. CASE CommitLastPage(w)
  <2>1. worker[w].key \in Key
    BY <1>5, TaskTyped DEF CommitLastPage
  <2>2. [SavedRun(w) EXCEPT !.status = "success"] \in RunState
    <3>1. SavedRun(w) \in RunState
      BY <1>5, SavedRunTyped DEF CommitLastPage
    <3> QED
      BY <3>1 DEF RunState
  <2>3. runs' \in [Key -> RunState]
    BY <1>5, <2>1, <2>2, RunReplaced DEF CommitLastPage, TypeOK
  <2>4. worker' \in [Worker -> TaskState]
    BY <1>5, LeaveTyped DEF CommitLastPage, Phase
  <2>5. 0 \in 0..MaxPages
    BY SyncAssumption
  <2> QED
    BY <1>5, <2>3, <2>4, <2>5, ReleasedTyped, PageWrittenTyped DEF CommitLastPage, TypeOK
<1> QED
  BY <1>1, <1>3, <1>4, <1>5

\* The end of a task.
LEMMA EndStepTyped ==
    ASSUME TypeOK, NEW w \in Worker,
           Report(w) \/ FindQueuedRun(w) \/ FailQueuedRun(w) \/ BlockDispatch(w)
    PROVE  TypeOK'
<1>1. CASE Report(w)
  <2>1. worker[w].result \in {"none", "queued", "running"} \cup Ended
    BY DEF TypeOK, TaskState, Ended
  <2>2. dispatch' \in [Occurrence -> DispatchState]
    BY <1>1, <2>1, DispatchMarked DEF Report, TypeOK
  <2> QED
    BY <1>1, <2>2, EndTaskTyped DEF Report, TypeOK
<1>2. CASE FindQueuedRun(w)
  <2>1. worker' \in [Worker -> TaskState]
    BY <1>2, StepTyped DEF FindQueuedRun, Phase
  <2> QED
    BY <1>2, <2>1 DEF FindQueuedRun, RunUnchanged, TypeOK
<1>3. CASE FailQueuedRun(w)
  <2>1. ASSUME NEW k \in Key PROVE [runs[k] EXCEPT !.status = "failed"] \in RunState
    BY DEF TypeOK, RunState
  <2>2. runs' \in [Key -> RunState]
    BY <1>3, <2>1 DEF FailQueuedRun, TypeOK
  <2>3. worker' \in [Worker -> TaskState]
    BY <1>3, StepTyped DEF FailQueuedRun, Phase
  <2> QED
    BY <1>3, <2>2, <2>3 DEF FailQueuedRun, TypeOK
<1>4. CASE BlockDispatch(w)
  <2>1. dispatch' \in [Occurrence -> DispatchState]
    BY <1>4, DispatchMarked DEF BlockDispatch, TypeOK, Ended
  <2> QED
    BY <1>4, <2>1, EndTaskTyped DEF BlockDispatch, TypeOK
<1> QED
  BY <1>1, <1>2, <1>3, <1>4

\* The scheduler.
LEMMA SchedulerTyped ==
    ASSUME TypeOK, SchedulerStep
    PROVE  TypeOK'
<1>1. CASE ReconcileDue
  BY <1>1, ReconciledTyped DEF ReconcileDue, TypeOK
<1>2. ASSUME NEW d \in Occurrence, DispatchDue(d) PROVE TypeOK'
  <2>1. PICK st \in {"queued", "skipped", "blocked"} :
            /\ dispatch' = [Reconciled EXCEPT ![d].status = st]
            /\ unsent' = IF st = "queued" THEN unsent \cup {d} ELSE unsent
    BY <1>2 DEF DispatchDue
  <2>2. PICK r \in [Occurrence -> DispatchState] : r = Reconciled
    BY ReconciledTyped
  <2>3. [r[d] EXCEPT !.status = st] \in DispatchState
    <3>1. r[d] \in DispatchState
      BY <2>2
    <3> QED
      BY <3>1 DEF DispatchState, Ended
  <2>4. dispatch' \in [Occurrence -> DispatchState]
    BY <2>1, <2>2, <2>3
  <2> QED
    BY <1>2, <2>1, <2>4 DEF DispatchDue, TypeOK, Key
<1>3. ASSUME NEW d \in Occurrence, RecoverUnstarted(d) \/ RecoverOrphan(d) PROVE TypeOK'
  <2>1. PICK st \in {"failed", "dispatch_failed"} : dispatch' = [dispatch EXCEPT ![d].status = st]
    BY <1>3 DEF RecoverUnstarted, RecoverOrphan
  <2>2. dispatch' \in [Occurrence -> DispatchState]
    BY <2>1, DispatchMarked DEF TypeOK, Ended
  <2> QED
    BY <1>3, <2>2 DEF RecoverUnstarted, RecoverOrphan, TypeOK
<1>4. ASSUME NEW k \in Key, NEW s \in 0..MaxSlices PROVE [key |-> k, seq |-> s] \in Message
  BY <1>4 DEF Message
<1>5. ASSUME NEW k \in Key PROVE FirstMessage(k) \in Message
  <2>1. 0 \in 0..MaxSlices
    BY SyncAssumption
  <2> QED
    BY <1>4, <2>1 DEF FirstMessage
<1>6. ASSUME NEW k \in Key, Publish(k) PROVE TypeOK'
  <2>1. ASSUME NEW d \in Occurrence PROVE [dispatch[d] EXCEPT !.enqueued = TRUE] \in DispatchState
    BY DEF TypeOK, DispatchState
  <2>2. dispatch' \in [Occurrence -> DispatchState]
    BY <1>6, <2>1 DEF Publish, TypeOK
  <2> QED
    BY <1>5, <1>6, <2>2 DEF Publish, TypeOK
<1>7. ASSUME NEW k \in Key, PublishFails(k) PROVE TypeOK'
  <2>1. dispatch' \in [Occurrence -> DispatchState]
    BY <1>7, DispatchMarked DEF PublishFails, UnsentRunDeleted, TypeOK, Ended
  <2>2. runs' \in [Key -> RunState]
    BY <1>7, NewRunTyped, RunReplaced DEF PublishFails, UnsentRunDeleted, TypeOK
  <2>3. broker' \subseteq Message
    BY <1>5, <1>7 DEF PublishFails, UnsentRunDeleted, TypeOK
  <2> QED
    BY <1>7, <2>1, <2>2, <2>3 DEF PublishFails, UnsentRunDeleted, TypeOK
<1>8. ASSUME NEW k \in Key, ResumeSubmit(k) PROVE TypeOK'
  <2>1. runs[k].seq \in 0..MaxSlices
    BY DEF TypeOK, RunState
  <2> QED
    BY <1>4, <1>8, <2>1 DEF ResumeSubmit, TypeOK
<1>9. CASE RecoverRunning
  <2>1. ASSUME NEW d \in Occurrence PROVE [dispatch[d] EXCEPT !.status = "failed"] \in DispatchState
    BY DEF TypeOK, DispatchState, Ended
  <2>2. dispatch' \in [Occurrence -> DispatchState]
    BY <1>9, <2>1 DEF RecoverRunning, TypeOK
  <2> QED
    BY <1>9, <2>2, ReleasedTyped, FailedRunsTyped DEF RecoverRunning, TypeOK
<1> QED
  BY <1>1, <1>2, <1>3, <1>6, <1>7, <1>8, <1>9 DEF SchedulerStep

\* The operator and the environment.
LEMMA OperatorTyped ==
    ASSUME TypeOK, OperatorStep
    PROVE  TypeOK'
<1>1. ASSUME NEW on \in BOOLEAN, NEW st \in {"idle", "disabled"}
      PROVE  [job EXCEPT !.enabled = on, !.status = st] \in JobState
  BY <1>1 DEF TypeOK, JobState
<1>2. ASSUME switches < MaxSwitches PROVE switches + 1 \in 0..MaxSwitches
  BY <1>2, SyncAssumption DEF TypeOK
<1>3. ASSUME NEW on \in BOOLEAN, Toggle(on) PROVE TypeOK'
  <2>1. job' \in JobState
    BY <1>1, <1>3 DEF Toggle
  <2> QED
    BY <1>2, <1>3, <2>1 DEF Toggle, TypeOK
<1>4. CASE DisableConfig
  <2>1. job' \in JobState
    BY <1>1, <1>4 DEF DisableConfig
  <2> QED
    BY <1>2, <1>4, <2>1 DEF DisableConfig, TypeOK
<1>5. ASSUME NEW k \in Manual, EnqueueManual(k) PROVE TypeOK'
  BY <1>5, NewRunTyped, RunReplaced DEF EnqueueManual, TypeOK, Key
<1> QED
  BY <1>3, <1>4, <1>5 DEF OperatorStep

LEMMA EnvironmentTyped ==
    ASSUME TypeOK, EnvironmentStep
    PROVE  TypeOK'
<1>1. ASSUME faults < MaxFaults PROVE faults + 1 \in 0..MaxFaults
  BY <1>1, SyncAssumption DEF TypeOK
<1>2. CASE LeaseExpires
  <2>1. job' \in JobState
    BY <1>2 DEF LeaseExpires, TypeOK, JobState
  <2> QED
    BY <1>2, <2>1 DEF LeaseExpires, TypeOK
<1>3. ASSUME NEW w \in Worker, Crash(w) PROVE TypeOK'
  <2>1. worker' \in [Worker -> TaskState]
    BY <1>3, IdleTyped, TaskReplaced DEF Crash
  <2>2. broker' \subseteq broker
    BY <1>3 DEF Crash
  <2> QED
    BY <1>1, <1>3, <2>1, <2>2 DEF Crash, TypeOK
<1>4. ASSUME NEW k \in Key, PublisherCrash(k) PROVE TypeOK'
  <2>1. FirstMessage(k) \in Message
    BY SyncAssumption DEF FirstMessage, Message
  <2>2. broker' \subseteq Message
    BY <1>4, <2>1 DEF PublisherCrash, TypeOK
  <2> QED
    BY <1>1, <1>4, <2>2 DEF PublisherCrash, TypeOK
<1>5. ASSUME NEW m \in broker, LoseMessage(m) PROVE TypeOK'
  BY <1>1, <1>5 DEF LoseMessage, TypeOK
<1> QED
  BY <1>2, <1>3, <1>4, <1>5 DEF EnvironmentStep

-----------------------------------------------------------------------------

\* SyncEngine, initially.
LEMMA InitTyped == Init => TypeOK
<1> SUFFICES ASSUME Init PROVE TypeOK
  OBVIOUS
<1>1. job \in JobState
  BY DEF Init, JobState
<1>2. runs \in [Key -> RunState]
  BY NewRunTyped DEF Init
<1>3. dispatch \in [Occurrence -> DispatchState]
  BY DEF Init, DispatchState
<1>4. worker \in [Worker -> TaskState]
  BY IdleTyped DEF Init
<1> QED
  BY <1>1, <1>2, <1>3, <1>4, SyncAssumption DEF Init, TypeOK

\* SyncEngine, every step or stutter.
LEMMA NextTyped == TypeOK /\ [Next]_vars => TypeOK'
<1>1. ASSUME TypeOK, NEW w \in Worker, TaskStep(w) PROVE TypeOK'
  BY <1>1, ClaimStepTyped, AcquireStepTyped, LoopStepTyped, CommitStepTyped, EndStepTyped
     DEF TaskStep
<1>2. ASSUME TypeOK, UNCHANGED vars PROVE TypeOK'
  BY <1>2 DEF vars, TypeOK
<1> QED
  BY <1>1, <1>2, SchedulerTyped, OperatorTyped, EnvironmentTyped DEF Next

\* Job, runs, dispatches, messages and what the workers remember are always well
\* typed: no counter passes its limit, and no worker acts for a run without a key.
THEOREM TypeCorrect == Spec => []TypeOK
BY InitTyped, NextTyped, PTL DEF Spec

-----------------------------------------------------------------------------
(* The life of one run: what a step may do to its status and its slices.   *)

SameSlices(k) == runs'[k].seq = runs[k].seq /\ runs'[k].started = runs[k].started

RunKept(k) == runs'[k].status = runs[k].status /\ SameSlices(k)

RunEnds(k) == runs'[k].status \in {"success", "failed"} /\ SameSlices(k)

\* Created, or deleted after a failed submission.
RunFresh(k) ==
    /\ runs[k].status \in {"absent", "queued"} /\ runs'[k].status \in {"absent", "queued"}
    /\ k \in Occurrence => runs[k].status = "absent"
    /\ runs'[k].seq = 0 /\ runs'[k].started = {}

RunYields(k) ==
    /\ runs'[k].status = "queued"
    /\ runs'[k].seq = runs[k].seq + 1 /\ runs'[k].started = runs[k].started

RunStarts(k) ==
    /\ runs'[k].status = "running"
    /\ \/ /\ runs[k].status = "queued" /\ runs'[k].seq = runs[k].seq
          /\ runs'[k].started = runs[k].started \cup {runs[k].seq}
       \/ /\ runs[k].status = "absent"
          /\ runs'[k].seq = 0 /\ runs'[k].started = {0}

RunStep(k) == RunKept(k) \/ RunEnds(k) \/ RunFresh(k) \/ RunYields(k) \/ RunStarts(k)

\* The two ways a whole table of runs is carried over.
LEMMA RunsUnchanged ==
    ASSUME runs' = runs, NEW k \in Key
    PROVE  RunKept(k)
BY DEF RunKept, SameSlices

LEMMA RunsFailed ==
    ASSUME TypeOK, runs' = FailedRuns \/ runs' = SeenRuns, NEW k \in Key
    PROVE  RunKept(k) \/ RunEnds(k)
<1>1. runs[k] \in RunState
  BY DEF TypeOK
<1>2. CASE runs' = runs
  BY <1>2, RunsUnchanged
<1>3. CASE runs' = FailedRuns
  <2>1. runs'[k] = IF runs[k].status = "running"
                   THEN [runs[k] EXCEPT !.status = "failed"] ELSE runs[k]
    BY <1>3 DEF FailedRuns
  <2> QED
    BY <1>1, <2>1 DEF RunState, RunKept, RunEnds, SameSlices
<1> QED
  BY <1>2, <1>3 DEF SeenRuns

LEMMA NewRunFresh ==
    NewRun.status = "queued" /\ NewRun.started = {} /\ NewRun.seq = 0
    /\ NoRun.status = "absent" /\ NoRun.started = {} /\ NoRun.seq = 0
BY DEF NewRun, NoRun

\* A yield moves the run of its worker to the next slice.
LEMMA YieldedRun ==
    ASSUME TypeOK, NEW w \in Worker, worker[w].pc # "idle", NEW run \in RunState, Yielded(w, run),
           run.seq = runs[worker[w].key].seq, run.started = runs[worker[w].key].started,
           NEW k \in Key
    PROVE  IF k = worker[w].key THEN RunYields(k) ELSE RunKept(k)
<1>1. PICK j \in Key : j = worker[w].key
  BY TaskTyped
<1>2. runs' = [runs EXCEPT ![j] = [run EXCEPT !.status = "queued", !.seq = run.seq + 1,
                                              !.pending = TRUE]]
  BY <1>1 DEF Yielded
<1> QED
  BY <1>1, <1>2 DEF TypeOK, RunState, RunYields, RunKept, SameSlices

\* A worker's transaction starts its own run and at most fails others.
LEMMA AcquiredRun ==
    ASSUME TypeOK, NEW w \in Worker, Acquire(w), NEW k \in Key
    PROVE  IF k = worker[w].key THEN RunStarts(k) ELSE RunKept(k) \/ RunEnds(k)
<1>1. PICK j \in Key, s \in 0..MaxSlices : j = worker[w].key /\ s = worker[w].seq
  BY TaskTyped DEF Acquire
<1>2. PICK r \in RunState : r = IF SeenRuns[j].status = "absent" THEN NewRun ELSE SeenRuns[j]
  BY SeenTyped, NewRunTyped
<1>3. runs' = [SeenRuns EXCEPT ![j] = [r EXCEPT !.status = "running", !.seq = s,
                   !.pending = FALSE, !.started = r.started \cup {s}]]
  BY <1>1, <1>2 DEF Acquire
<1>4. CASE k = j
  <2>1. /\ runs'[k].status = "running" /\ runs'[k].seq = s
        /\ runs'[k].started = r.started \cup {s}
    BY <1>2, <1>3, <1>4, SeenTyped DEF RunState
  <2>2. \/ SeenRuns[j].status = "queued" /\ SeenRuns[j].seq = s
        \/ SeenRuns[j].status = "absent" /\ s = 0
    BY <1>1 DEF Acquire, Acquirable
  <2>3. SeenRuns[j].status \in {"absent", "queued"} => SeenRuns[j] = runs[j]
    BY DEF SeenRuns, FailedRuns, TypeOK, RunState
  <2>4. CASE SeenRuns[j].status = "queued" /\ SeenRuns[j].seq = s
    BY <1>1, <1>2, <1>4, <2>1, <2>3, <2>4 DEF RunStarts
  <2>5. CASE SeenRuns[j].status = "absent" /\ s = 0
    BY <1>1, <1>2, <1>4, <2>1, <2>3, <2>5, NewRunFresh DEF RunStarts
  <2> QED
    BY <2>2, <2>4, <2>5
<1>5. CASE k # j
  <2>1. runs'[k] = SeenRuns[k]
    BY <1>3, <1>5, SeenTyped
  <2>2. runs'[k] = runs[k] \/ runs'[k] = [runs[k] EXCEPT !.status = "failed"]
    BY <2>1 DEF SeenRuns, FailedRuns
  <2> QED
    BY <1>1, <1>5, <2>2 DEF RunKept, RunEnds, SameSlices, TypeOK, RunState
<1> QED
  BY <1>1, <1>4, <1>5

\* A quiet step neither starts, yields nor takes the lock: runs are only created,
\* deleted, changed in place or ended.
QuietRuns == \A k \in Key : RunKept(k) \/ RunEnds(k) \/ RunFresh(k)

\* Every transaction of a task but the two that yield and the one that starts.
LEMMA TaskRunsQuiet ==
    ASSUME TypeOK, NEW w \in Worker,
           TaskStep(w), ~Acquire(w), ~YieldForCredential(w), ~CommitAndYield(w)
    PROVE  QuietRuns
<1> SUFFICES ASSUME NEW k \in Key PROVE RunKept(k) \/ RunEnds(k) \/ RunFresh(k)
  BY DEF QuietRuns
<1>1. ASSUME worker[w].pc # "idle"
      PROVE  worker[w].key \in Key /\ runs[worker[w].key] \in RunState
  BY <1>1, TaskTyped
<1>2. runs \in [Key -> RunState]
  BY DEF TypeOK
<1>3. CASE Defer(w)
  <2>1. PICK j \in Key : j = worker[w].key
    BY <1>1, <1>3 DEF Defer
  <2>2. PICK r \in RunState : r = IF runs[j].status = "absent" THEN NewRun ELSE runs[j]
    BY <1>2, NewRunTyped
  <2>3. runs' = [runs EXCEPT ![j] = [r EXCEPT !.pending = TRUE, !.waits = r.waits + 1]]
    BY <1>3, <2>1, <2>2 DEF Defer
  <2>4. runs[j].status \in {"absent", "queued"}
    BY <1>3, <2>1 DEF Defer
  <2> QED
    BY <1>2, <2>2, <2>3, <2>4, NewRunFresh DEF RunState, RunKept, RunFresh, SameSlices
<1>4. CASE AnswerExisting(w)
  BY <1>4, RunsFailed DEF AnswerExisting
<1>5. CASE CommitPage(w)
  <2>1. runs' = [runs EXCEPT ![worker[w].key] =
                    [runs[worker[w].key] EXCEPT !.pages = worker[w].pages + 1]]
    BY <1>5 DEF CommitPage, SavedRun
  <2> QED
    BY <1>2, <2>1 DEF RunState, RunKept, SameSlices
<1>6. CASE CommitLastPage(w)
  <2>1. PICK j \in Key, r \in RunState : j = worker[w].key /\ r = SavedRun(w)
    BY <1>1, <1>6, SavedRunTyped DEF CommitLastPage
  <2>2. r.seq = runs[j].seq /\ r.started = runs[j].started
    BY <1>2, <2>1 DEF SavedRun, RunState
  <2>3. runs' = [runs EXCEPT ![j] = [r EXCEPT !.status = "success"]]
    BY <1>6, <2>1 DEF CommitLastPage
  <2> QED
    BY <1>2, <2>1, <2>2, <2>3 DEF RunState, RunKept, RunEnds, SameSlices
<1>7. CASE Retry(w)
  BY <1>2, <1>7 DEF Retry, RunState, RunKept, SameSlices
<1>8. CASE FailRun(w)
  BY <1>2, <1>8 DEF FailRun, RunState, RunKept, RunEnds, SameSlices
<1>9. CASE FailQueuedRun(w)
  BY <1>2, <1>9 DEF FailQueuedRun, RunState, RunKept, RunEnds, SameSlices
<1>10. CASE runs' = runs
  BY <1>10, RunsUnchanged
<1>11. \/ Defer(w) \/ AnswerExisting(w) \/ CommitPage(w) \/ CommitLastPage(w) \/ Retry(w)
       \/ FailRun(w) \/ FailQueuedRun(w) \/ runs' = runs
  BY DEF TaskStep, Receive, Claim, ClaimRefused, RejectPreflight, RefuseAcquire, Renew, Fetch,
         RenewForCommit, CommitFails, ErrorNotOwner, GiveUp, Report, FindQueuedRun,
         BlockDispatch, RunUnchanged
<1> QED
  BY <1>3, <1>4, <1>5, <1>6, <1>7, <1>8, <1>9, <1>10, <1>11

\* Scheduler, operator and environment start nothing and yield nothing.
LEMMA OtherRunsQuiet ==
    ASSUME TypeOK, SchedulerStep \/ OperatorStep \/ EnvironmentStep \/ UNCHANGED vars
    PROVE  QuietRuns
<1> SUFFICES ASSUME NEW k \in Key PROVE RunKept(k) \/ RunEnds(k) \/ RunFresh(k)
  BY DEF QuietRuns
<1>1. runs \in [Key -> RunState]
  BY DEF TypeOK
<1>2. ASSUME NEW j \in Key, PublishFails(j) PROVE RunKept(k) \/ RunFresh(k)
  BY <1>1, <1>2, NewRunFresh, SyncAssumption DEF PublishFails, UnsentRunDeleted, RunKept, RunFresh, SameSlices
<1>3. ASSUME NEW j \in Key, EnqueueManual(j) PROVE RunKept(k) \/ RunFresh(k)
  BY <1>1, <1>3, NewRunFresh DEF EnqueueManual, RunKept, RunFresh, SameSlices
<1>4. CASE RecoverRunning
  BY <1>4, RunsFailed DEF RecoverRunning
<1>5. CASE runs' = runs
  BY <1>5, RunsUnchanged
<1>6. RecoverRunning \/ (\E j \in Key : PublishFails(j)) \/ (\E j \in Manual : EnqueueManual(j))
      \/ runs' = runs
  BY DEF SchedulerStep, OperatorStep, EnvironmentStep, vars, ReconcileDue, DispatchDue,
         RecoverUnstarted, RecoverOrphan, Publish, ResumeSubmit, Toggle, DisableConfig,
         LeaseExpires, Crash, PublisherCrash, LoseMessage
<1> QED
  BY <1>2, <1>3, <1>4, <1>5, <1>6 DEF Key

\* Whatever happens, each run makes one of the five moves.
LEMMA RunMoves ==
    ASSUME TypeOK, [Next]_vars, NEW k \in Key
    PROVE  RunStep(k)
<1>1. CASE QuietRuns
  BY <1>1 DEF QuietRuns, RunStep
<1>2. ASSUME NEW w \in Worker, Acquire(w) PROVE RunStep(k)
  BY <1>2, AcquiredRun DEF RunStep
<1>3. ASSUME NEW w \in Worker, YieldForCredential(w) PROVE RunStep(k)
  <2>1. worker[w].pc # "idle" /\ Yielded(w, runs[worker[w].key])
    BY <1>3 DEF YieldForCredential
  <2> QED
    BY <2>1, TaskTyped, YieldedRun DEF RunStep
<1>4. ASSUME NEW w \in Worker, CommitAndYield(w) PROVE RunStep(k)
  <2>1. worker[w].pc # "idle" /\ Yielded(w, SavedRun(w))
    BY <1>4 DEF CommitAndYield
  <2>2. /\ SavedRun(w).seq = runs[worker[w].key].seq
        /\ SavedRun(w).started = runs[worker[w].key].started
    BY <2>1, TaskTyped DEF SavedRun, RunState
  <2> QED
    BY <2>1, <2>2, SavedRunTyped, YieldedRun DEF RunStep
<1> QED
  BY <1>1, <1>2, <1>3, <1>4, TaskRunsQuiet, OtherRunsQuiet DEF Next

-----------------------------------------------------------------------------
(* A slice is started once.                                                *)

\* The slices started so far are not ahead of the run, and a run that waits has not
\* started the slice it waits for.
SlicesBehind ==
    \A k \in Key :
        /\ runs[k].status = "absent" => runs[k].started = {}
        /\ \A s \in runs[k].started :
              /\ s <= runs[k].seq
              /\ runs[k].status = "queued" => s < runs[k].seq

LEMMA SlicesBehindInductive ==
    ASSUME TypeOK, SlicesBehind, [Next]_vars
    PROVE  SlicesBehind'
<1> SUFFICES ASSUME NEW k \in Key
             PROVE  /\ runs'[k].status = "absent" => runs'[k].started = {}
                    /\ \A s \in runs'[k].started :
                          /\ s <= runs'[k].seq
                          /\ runs'[k].status = "queued" => s < runs'[k].seq
  BY DEF SlicesBehind
<1>1. RunStep(k)
  BY RunMoves
<1>2. runs[k].seq \in Nat /\ runs'[k].seq \in Nat /\ runs[k].started \subseteq Nat
  BY NextTyped DEF TypeOK, RunState
<1>3. CASE RunKept(k) \/ RunEnds(k)
  BY <1>2, <1>3 DEF RunKept, RunEnds, SameSlices, SlicesBehind
<1>4. CASE RunFresh(k)
  BY <1>4 DEF RunFresh
<1>5. CASE RunYields(k)
  BY <1>2, <1>5 DEF RunYields, SlicesBehind
<1>6. CASE RunStarts(k)
  BY <1>2, <1>6 DEF RunStarts, SlicesBehind
<1> QED
  BY <1>1, <1>3, <1>4, <1>5, <1>6 DEF RunStep

\* A late, repeated or redelivered message never starts a slice of a run a second
\* time, whatever crashes, recoveries and resubmissions came before it.
THEOREM SlicesStartOnce == Spec => SliceStartedOnce
<1>1. Init => TypeOK /\ SlicesBehind
  BY InitTyped, NewRunFresh DEF Init, SlicesBehind
<1>2. TypeOK /\ SlicesBehind /\ [Next]_vars => (TypeOK /\ SlicesBehind)'
  BY NextTyped, SlicesBehindInductive
<1>3. ASSUME TypeOK, SlicesBehind, [Next]_vars, NEW k \in Key,
             runs'[k].status = "running", runs[k].status # "running"
      PROVE  runs'[k].seq \notin runs[k].started
  <2>1. RunStarts(k)
    BY <1>3, RunMoves DEF RunStep, RunKept, RunEnds, RunFresh, RunYields
  <2>2. runs[k].seq \in Nat
    BY <1>3 DEF TypeOK, RunState
  <2> QED
    BY <1>3, <2>1, <2>2 DEF RunStarts, SlicesBehind
<1>4. TypeOK /\ SlicesBehind /\ [Next]_vars =>
        [\A k \in Key : runs'[k].status = "running" /\ runs[k].status # "running"
                        => runs'[k].seq \notin runs[k].started]_vars
  BY <1>3
<1> QED
  BY <1>1, <1>2, <1>4, PTL DEF Spec, SliceStartedOnce

-----------------------------------------------------------------------------
(***************************************************************************)
(* The lock and the lease.  A run is executed by one worker at a time      *)
(* (OneTaskPerRun), because a run that some worker executes, or still      *)
(* believes to execute, neither waits nor is missing (TaskRunTaken).  A    *)
(* worker about to write holds the live lease (WriterHoldsLease), which a  *)
(* free job never has (FreeJobUnleased); and a running run keeps the job   *)
(* from being free (RunningLocked).                                        *)
(***************************************************************************)
OneTaskPerRun ==
    \A v, w \in Worker :
        /\ worker[v].pc \in InRun /\ worker[w].pc \in InRun
        /\ worker[v].key = worker[w].key
        => v = w

TaskRunTaken ==
    \A w \in Worker :
        worker[w].pc \in InRun => runs[worker[w].key].status \notin {"absent", "queued"}

WriterHoldsLease ==
    \A w \in Worker :
        worker[w].pc \in Unchecked => job.owner = worker[w].key /\ job.lease = "live"

FreeJobUnleased == job.status \in {"idle", "failed"} => job.lease # "live"

RunningLocked ==
    \A k \in Key :
        runs[k].status = "running" => job.owner = k /\ job.status \in {"running", "disabled"}

LeaseInv ==
    OneTaskPerRun /\ TaskRunTaken /\ WriterHoldsLease /\ FreeJobUnleased /\ RunningLocked

\* No task begins to execute a run, and one that gets past its last check owns the lease.
TasksContinue ==
    \A w \in Worker :
        worker'[w].pc \in InRun =>
            /\ worker[w].pc \in InRun
            /\ worker'[w].key = worker[w].key
            /\ worker'[w].pc \in Unchecked => worker[w].pc \in Unchecked \/ Owns(w)

LEMMA LeaveContinues ==
    ASSUME TypeOK, NEW w \in Worker, NEW pc, NEW r, Leave(w, pc, r)
    PROVE  /\ worker'[w].pc = pc
           /\ \A v \in Worker \ {w} : worker'[v] = worker[v]
BY DEF Leave, TypeOK, Idle

LEMMA StepContinues ==
    ASSUME TypeOK, NEW w \in Worker, NEW pc, Step(w, pc)
    PROVE  /\ worker'[w].pc = pc /\ worker'[w].key = worker[w].key
           /\ \A v \in Worker \ {w} : worker'[v] = worker[v]
BY DEF Step, TypeOK, TaskState

\* A step of w that leaves the other tasks alone and takes w out of its run.
LEMMA OthersContinue ==
    ASSUME NEW w \in Worker, \A v \in Worker \ {w} : worker'[v] = worker[v],
           worker'[w].pc \notin InRun
    PROVE  TasksContinue
BY DEF TasksContinue, InRun, Unchecked

\* A step of w inside its run.
LEMMA LoopContinues ==
    ASSUME NEW w \in Worker, \A v \in Worker \ {w} : worker'[v] = worker[v],
           worker[w].pc \in InRun, worker'[w].key = worker[w].key,
           worker'[w].pc \in Unchecked => Owns(w)
    PROVE  TasksContinue
BY DEF TasksContinue, InRun, Unchecked

LEMMA TaskContinues ==
    ASSUME TypeOK, NEW w \in Worker, TaskStep(w), ~Acquire(w)
    PROVE  TasksContinue
<1> USE DEF InRun, Unchecked
<1>1. ASSUME NEW m \in broker, Receive(w, m) PROVE TasksContinue
  <2>1. \/ worker' = worker
        \/ \E pc \in {"received", "claimed"} :
              worker' = [worker EXCEPT ![w] =
                  [Idle EXCEPT !.pc = pc, !.key = m.key, !.seq = m.seq]]
    BY <1>1, Zenon DEF Receive
  <2>2. CASE worker' = worker
    BY <2>2 DEF TasksContinue
  <2>3. ASSUME NEW pc \in {"received", "claimed"},
               worker' = [worker EXCEPT ![w] =
                  [Idle EXCEPT !.pc = pc, !.key = m.key, !.seq = m.seq]]
        PROVE  TasksContinue
    <3>1. worker'[w].pc = pc /\ \A v \in Worker \ {w} : worker'[v] = worker[v]
      BY <2>3 DEF TypeOK, Idle
    <3> QED
      BY <3>1, OthersContinue
  <2> QED
    BY <2>1, <2>2, <2>3
<1>2. ASSUME EndTask(w) PROVE TasksContinue
  <2>1. worker'[w].pc = "idle" /\ \A v \in Worker \ {w} : worker'[v] = worker[v]
    BY <1>2 DEF EndTask, TypeOK, Idle
  <2> QED
    BY <2>1, OthersContinue
<1>3. ASSUME NEW pc, pc \notin InRun, Step(w, pc) PROVE TasksContinue
  BY <1>3, StepContinues, OthersContinue
<1>4. ASSUME NEW pc, NEW r, pc \notin InRun, Leave(w, pc, r) PROVE TasksContinue
  BY <1>4, LeaveContinues, OthersContinue
<1>5. ASSUME NEW pc, worker[w].pc \in InRun, pc \in Unchecked => Owns(w), Step(w, pc)
      PROVE  TasksContinue
  BY <1>5, StepContinues, LoopContinues
<1>6. CASE ClaimRefused(w) \/ Defer(w) \/ Report(w) \/ BlockDispatch(w)
  BY <1>2, <1>6 DEF ClaimRefused, Defer, Report, BlockDispatch
<1>7. CASE \/ Claim(w) \/ RejectPreflight(w) \/ RefuseAcquire(w) \/ FindQueuedRun(w)
           \/ FailQueuedRun(w)
  BY <1>3, <1>7 DEF Claim, RejectPreflight, RefuseAcquire, FindQueuedRun, FailQueuedRun
<1>8. CASE \/ AnswerExisting(w) \/ YieldForCredential(w) \/ CommitAndYield(w)
           \/ CommitLastPage(w) \/ ErrorNotOwner(w) \/ FailRun(w)
  BY <1>4, <1>8 DEF AnswerExisting, YieldForCredential, CommitAndYield, Yielded, CommitLastPage,
                    ErrorNotOwner, FailRun
<1>9. CASE Renew(w) \/ RenewForCommit(w)
  BY <1>5, <1>9 DEF Renew, RenewForCommit
<1>10. CASE Fetch(w)
  <2>1. CASE worker' = [worker EXCEPT ![w].pc = "fetched", ![w].page = worker[w].cursor]
    <3>1. /\ worker'[w].pc = "fetched" /\ worker'[w].key = worker[w].key
          /\ \A v \in Worker \ {w} : worker'[v] = worker[v]
      BY <2>1 DEF TypeOK, TaskState
    <3> QED
      BY <1>10, <3>1, LoopContinues DEF Fetch
  <2>2. CASE Step(w, "error")
    BY <1>5, <1>10, <2>2 DEF Fetch
  <2> QED
    BY <1>10, <2>1, <2>2 DEF Fetch
<1>11. CASE CommitPage(w)
  <2>1. /\ worker'[w].pc = "loop" /\ worker'[w].key = worker[w].key
        /\ \A v \in Worker \ {w} : worker'[v] = worker[v]
    BY <1>11 DEF CommitPage, TypeOK, TaskState
  <2> QED
    BY <1>11, <2>1, LoopContinues DEF CommitPage
<1>12. CASE CommitFails(w)
  <2>1. /\ worker'[w].pc = "error" /\ worker'[w].key = worker[w].key
        /\ \A v \in Worker \ {w} : worker'[v] = worker[v]
    BY <1>12 DEF CommitFails, TypeOK, TaskState
  <2> QED
    BY <1>12, <2>1, LoopContinues DEF CommitFails
<1>13. CASE Retry(w) \/ GiveUp(w)
  <2>1. /\ worker'[w].pc \in {"loop", "failing"} /\ worker'[w].key = worker[w].key
        /\ \A v \in Worker \ {w} : worker'[v] = worker[v]
    <3>1. PICK u : /\ u.pc \in {"loop", "failing"} /\ u.key = worker[w].key
                   /\ worker' = [worker EXCEPT ![w] = u]
      <4>1. CASE Retry(w)
        <5>1. PICK lockError \in BOOLEAN :
                  worker' = [worker EXCEPT ![w] = [Refreshed(w, lockError) EXCEPT
                      !.pc = "loop", !.locks = IF lockError THEN @ + 1 ELSE @]]
          BY <4>1 DEF Retry
        <5>2. PICK t \in TaskState : t = Refreshed(w, lockError) /\ t.key = worker[w].key
          BY <4>1, RefreshedTask DEF Retry
        <5>3. PICK l : l = IF lockError THEN t.locks + 1 ELSE t.locks
          OBVIOUS
        <5>4. PICK u : u = [t EXCEPT !.pc = "loop", !.locks = l]
          OBVIOUS
        <5>5. u.pc = "loop" /\ u.key = t.key
          BY <5>4 DEF TaskState
        <5>6. worker' = [worker EXCEPT ![w] = u]
          BY <5>1, <5>2, <5>3, <5>4
        <5> QED
          BY ONLY <5>2, <5>5, <5>6
      <4>2. CASE GiveUp(w)
        <5>1. PICK t \in TaskState : t = Refreshed(w, FALSE) /\ t.key = worker[w].key
          BY <4>2, RefreshedTask DEF GiveUp
        <5>2. PICK u : u = [t EXCEPT !.pc = "failing"]
          OBVIOUS
        <5>3. u.pc = "failing" /\ u.key = t.key
          BY <5>2 DEF TaskState
        <5>4. worker' = [worker EXCEPT ![w] = u]
          BY <4>2, <5>1, <5>2 DEF GiveUp
        <5> QED
          BY ONLY <5>1, <5>3, <5>4
      <4> QED
        BY <1>13, <4>1, <4>2
    <3> QED
      BY <3>1 DEF TypeOK, TaskState
  <2> QED
    BY <1>13, <2>1, LoopContinues DEF Retry, GiveUp
<1> QED
  BY <1>1, <1>6, <1>7, <1>8, <1>9, <1>10, <1>11, <1>12, <1>13 DEF TaskStep

LEMMA OtherContinues ==
    ASSUME TypeOK, SchedulerStep \/ OperatorStep \/ EnvironmentStep \/ UNCHANGED vars
    PROVE  TasksContinue
<1>1. CASE worker' = worker
  BY <1>1 DEF TasksContinue
<1>2. ASSUME NEW w \in Worker, Crash(w) PROVE TasksContinue
  <2>1. worker'[w].pc = "idle" /\ \A v \in Worker \ {w} : worker'[v] = worker[v]
    BY <1>2 DEF Crash, TypeOK, Idle
  <2> QED
    BY <2>1, OthersContinue DEF InRun
<1>3. worker' = worker \/ \E w \in Worker : Crash(w)
  BY DEF SchedulerStep, OperatorStep, EnvironmentStep, vars, ReconcileDue, DispatchDue,
         RecoverUnstarted, RecoverOrphan, Publish, PublishFails, UnsentRunDeleted, ResumeSubmit, RecoverRunning,
         EnqueueManual, Toggle, DisableConfig, LeaseExpires, PublisherCrash, LoseMessage
<1> QED
  BY <1>1, <1>2, <1>3

\* Case 1 of the induction: the job is left alone.
LEMMA LeaseKept ==
    ASSUME TypeOK, LeaseInv, job' = job, QuietRuns, TasksContinue
    PROVE  LeaseInv'
<1> USE DEF LeaseInv
<1>1. \A w \in Worker : worker[w].pc \in InRun => worker[w].key \in Key
  BY TaskTyped DEF InRun
<1>2. OneTaskPerRun'
  BY DEF OneTaskPerRun, TasksContinue
<1>3. TaskRunTaken'
  BY <1>1 DEF TaskRunTaken, TasksContinue, QuietRuns, RunKept, RunEnds, RunFresh
<1>4. WriterHoldsLease'
  BY DEF WriterHoldsLease, TasksContinue, Owns, InRun, Unchecked
<1>5. FreeJobUnleased' /\ RunningLocked'
  BY DEF FreeJobUnleased, RunningLocked, QuietRuns, RunKept, RunEnds, RunFresh
<1> QED
  BY <1>2, <1>3, <1>4, <1>5

\* Case 2: the lock is given back, behind the last writer and the last running run.
LEMMA LeaseReleased ==
    ASSUME TypeOK, LeaseInv, TasksContinue, job'.lease = "none",
           \A k \in Key : runs'[k].status # "running",
           \A w \in Worker : worker'[w].pc \notin Unchecked,
           \A w \in Worker : worker'[w].pc \in InRun =>
               RunKept(worker[w].key) \/ RunEnds(worker[w].key) \/ RunFresh(worker[w].key)
    PROVE  LeaseInv'
<1> USE DEF LeaseInv
<1>1. OneTaskPerRun'
  BY DEF OneTaskPerRun, TasksContinue
<1>2. TaskRunTaken'
  BY DEF TaskRunTaken, TasksContinue, RunKept, RunEnds, RunFresh
<1>3. WriterHoldsLease' /\ FreeJobUnleased' /\ RunningLocked'
  BY DEF WriterHoldsLease, FreeJobUnleased, RunningLocked
<1> QED
  BY <1>1, <1>2, <1>3

LEMMA ReleasedLease == ASSUME TypeOK, NEW st PROVE Released(st).lease = "none"
BY DEF Released, TypeOK, JobState

\* A worker that holds the lock is the only one that may write.
LEMMA OnlyWriter ==
    ASSUME LeaseInv, NEW w \in Worker, worker[w].pc \in InRun, job.owner = worker[w].key,
           NEW v \in Worker, worker[v].pc \in Unchecked
    PROVE  v = w
BY DEF LeaseInv, OneTaskPerRun, WriterHoldsLease, InRun, Unchecked

\* A recovered lease fails every run that was running.
LEMMA NoneRunning ==
    ASSUME TypeOK, NEW k \in Key
    PROVE  FailedRuns[k].status # "running"
BY DEF FailedRuns, TypeOK, RunState

\* A worker that gives the lock back, by a yield, with its last page or by a failure.
LEMMA LeaseGivenBack ==
    ASSUME TypeOK, LeaseInv, NEW w \in Worker,
           \/ YieldForCredential(w) \/ CommitAndYield(w) \/ CommitLastPage(w) \/ FailRun(w)
    PROVE  LeaseInv'
<1>1. worker[w].pc \in InRun /\ worker[w].key \in Key /\ job.owner = worker[w].key
  BY TaskTyped DEF YieldForCredential, CommitAndYield, Yielded, CommitLastPage, FailRun, Owns,
                   LeaseInv, WriterHoldsLease, Unchecked, InRun
<1>2. TasksContinue
  <2>1. ~Acquire(w)
    BY DEF Acquire, YieldForCredential, CommitAndYield, CommitLastPage, FailRun
  <2> QED
    BY <2>1, TaskContinues DEF TaskStep
<1>3. \A v \in Worker \ {w} : worker'[v] = worker[v]
  BY LeaveContinues DEF YieldForCredential, CommitAndYield, Yielded, CommitLastPage, FailRun
<1>4. worker'[w].pc = "report"
  BY LeaveContinues DEF YieldForCredential, CommitAndYield, Yielded, CommitLastPage, FailRun
<1>5. job'.lease = "none"
  BY ReleasedLease DEF YieldForCredential, CommitAndYield, Yielded, CommitLastPage, FailRun
<1>6. ASSUME NEW k \in Key
      PROVE  /\ k # worker[w].key => RunKept(k) \/ RunEnds(k) \/ RunFresh(k)
             /\ k = worker[w].key => runs'[k].status # "running"
  <2>1. runs \in [Key -> RunState] /\ SavedRun(w) \in RunState
    BY <1>1, SavedRunTyped DEF TypeOK, InRun
  <2>2. PICK r \in RunState : r = SavedRun(w)
    BY <2>1
  <2>3. CASE YieldForCredential(w)
    <3>1. Yielded(w, runs[worker[w].key]) /\ worker[w].pc # "idle"
      BY <2>3 DEF YieldForCredential
    <3> QED
      BY <1>1, <2>1, <3>1, YieldedRun DEF RunYields
  <2>4. CASE CommitAndYield(w)
    <3>1. Yielded(w, r) /\ worker[w].pc # "idle"
      BY <2>2, <2>4 DEF CommitAndYield
    <3>2. r.seq = runs[worker[w].key].seq /\ r.started = runs[worker[w].key].started
      BY <1>1, <2>1, <2>2 DEF SavedRun, RunState
    <3> QED
      BY <3>1, <3>2, YieldedRun DEF RunYields
  <2>5. CASE CommitLastPage(w)
    <3>1. runs' = [runs EXCEPT ![worker[w].key] = [r EXCEPT !.status = "success"]]
      BY <2>2, <2>5 DEF CommitLastPage
    <3> QED
      BY <1>1, <2>1, <3>1 DEF RunState, RunKept, SameSlices
  <2>6. CASE FailRun(w)
    BY <1>1, <2>1, <2>6 DEF FailRun, RunState, RunKept, SameSlices
  <2> QED
    BY <2>3, <2>4, <2>5, <2>6
<1>7. \A k \in Key : runs'[k].status # "running"
  BY <1>1, <1>6 DEF LeaseInv, RunningLocked, RunKept, RunEnds, RunFresh
<1>8. \A v \in Worker : worker'[v].pc \notin Unchecked
  BY <1>1, <1>3, <1>4, OnlyWriter DEF Unchecked
<1>9. ASSUME NEW v \in Worker, worker'[v].pc \in InRun
      PROVE  LET k == worker[v].key IN RunKept(k) \/ RunEnds(k) \/ RunFresh(k)
  <2>1. v # w /\ worker[v].pc \in InRun
    BY <1>3, <1>4, <1>9 DEF InRun
  <2>2. worker[v].key \in Key /\ worker[v].key # worker[w].key
    BY <1>1, <2>1, TaskTyped DEF LeaseInv, OneTaskPerRun, InRun
  <2> QED
    BY <1>6, <2>2
<1> QED
  BY <1>2, <1>5, <1>7, <1>8, <1>9, LeaseReleased

\* An expired lease is recovered, by another run's transaction or by the tick.
LEMMA LeaseRecovered ==
    ASSUME TypeOK, LeaseInv, QuietRuns, TasksContinue,
           job' = Released("failed"), runs' = FailedRuns,
           job.lease = "expired" \/ OnRun(job.owner) = {},
           \A w \in Worker : worker'[w].pc \in Unchecked => worker[w].pc \in Unchecked
    PROVE  LeaseInv'
<1>1. \A k \in Key : runs'[k].status # "running"
  BY NoneRunning
<1>2. \A w \in Worker : worker'[w].pc \notin Unchecked
  BY DEF LeaseInv, WriterHoldsLease, OnRun, InRun, Unchecked
<1>3. \A w \in Worker : worker'[w].pc \in InRun => worker[w].key \in Key
  BY TaskTyped DEF TasksContinue, InRun
<1> QED
  BY <1>1, <1>2, <1>3, ReleasedLease, LeaseReleased DEF QuietRuns

\* The tick.
LEMMA LeaseAfterTick ==
    ASSUME TypeOK, LeaseInv, RecoverRunning
    PROVE  LeaseInv'
<1>1. QuietRuns /\ TasksContinue
  BY OtherRunsQuiet, OtherContinues DEF SchedulerStep
<1> QED
  BY <1>1, LeaseRecovered DEF RecoverRunning

\* A task that is answered with a run it does not execute.
LEMMA LeaseAnswered ==
    ASSUME TypeOK, LeaseInv, NEW w \in Worker, AnswerExisting(w)
    PROVE  LeaseInv'
<1>1. QuietRuns /\ TasksContinue
  <2>1. ~Acquire(w) /\ ~YieldForCredential(w) /\ ~CommitAndYield(w)
    <3>1. worker'[w].pc = "report"
      BY LeaveContinues DEF AnswerExisting
    <3>2. ~YieldForCredential(w) /\ ~CommitAndYield(w)
      BY DEF AnswerExisting, YieldForCredential, CommitAndYield
    <3>3. ASSUME Acquire(w) PROVE FALSE
      BY <3>1, <3>3 DEF Acquire, TypeOK, TaskState
    <3> QED
      BY <3>2, <3>3
  <2> QED
    BY <2>1, TaskRunsQuiet, TaskContinues DEF TaskStep
<1>2. CASE LeaseRanOut
  <2>1. job' = Released("failed") /\ runs' = FailedRuns /\ job.lease = "expired"
    BY <1>2 DEF AnswerExisting, SeenJob, SeenRuns, LeaseRanOut
  <2>2. \A v \in Worker : worker'[v].pc \in Unchecked => worker[v].pc \in Unchecked
    BY LeaveContinues DEF AnswerExisting, Unchecked
  <2> QED
    BY <1>1, <2>1, <2>2, LeaseRecovered
<1>3. CASE ~LeaseRanOut
  <2>1. job' = job
    BY <1>3 DEF AnswerExisting, SeenJob
  <2> QED
    BY <1>1, <2>1, LeaseKept
<1> QED
  BY <1>2, <1>3

\* A worker that takes the lease finds nobody else in its run, nobody about to write
\* and no other run running.
LEMMA LeaseTaken ==
    ASSUME TypeOK, LeaseInv, NEW w \in Worker, Acquire(w)
    PROVE  LeaseInv'
<1> USE DEF LeaseInv
<1>1. PICK k \in Key : k = worker[w].key
  BY TaskTyped DEF Acquire
<1>2. /\ worker'[w].pc = "loop" /\ worker'[w].key = k
      /\ \A v \in Worker \ {w} : worker'[v] = worker[v]
  BY <1>1 DEF Acquire, TypeOK, TaskState
<1>3. job'.status = "running" /\ job'.owner = k /\ job'.lease = "live"
  BY <1>1 DEF Acquire, TypeOK, JobState
<1>4. RunStarts(k) /\ \A j \in Key \ {k} : RunKept(j) \/ RunEnds(j)
  BY <1>1, AcquiredRun
<1>5. runs[k].status \in {"absent", "queued"} /\ runs'[k].status = "running"
  BY <1>4 DEF RunStarts
<1>6. job.lease # "live"
  <2>1. SeenJob.status \in {"idle", "failed"}
    BY DEF Acquire, Acquirable
  <2> QED
    BY <2>1 DEF SeenJob, LeaseRanOut, FreeJobUnleased
<1>7. \A v \in Worker : worker'[v].pc \in InRun => v = w \/ worker'[v].key # k
  BY <1>2, <1>5 DEF TaskRunTaken
<1>8. OneTaskPerRun'
  BY <1>2, <1>7 DEF OneTaskPerRun
<1>9. TaskRunTaken'
  <2> SUFFICES ASSUME NEW v \in Worker, worker'[v].pc \in InRun
               PROVE  runs'[worker'[v].key].status \notin {"absent", "queued"}
    BY DEF TaskRunTaken
  <2>1. CASE v = w
    BY <1>2, <1>5, <2>1
  <2>2. CASE v # w
    <3>1. worker'[v] = worker[v] /\ worker[v].key \in Key \ {k}
      BY <1>2, <1>7, <2>2, TaskTyped DEF InRun
    <3> QED
      BY <1>4, <3>1 DEF TaskRunTaken, RunKept, RunEnds
  <2> QED
    BY <2>1, <2>2
<1>10. WriterHoldsLease'
  BY <1>2, <1>6 DEF WriterHoldsLease, Unchecked
<1>11. FreeJobUnleased'
  BY <1>3 DEF FreeJobUnleased
<1>12. RunningLocked'
  <2> SUFFICES ASSUME NEW j \in Key, j # k PROVE runs'[j].status # "running"
    BY <1>3 DEF RunningLocked
  <2>1. runs'[j] = SeenRuns[j]
    BY <1>1, SeenTyped DEF Acquire
  <2>2. CASE LeaseRanOut
    BY <2>1, <2>2, NoneRunning DEF SeenRuns
  <2>3. CASE ~LeaseRanOut
    <3>1. job.status \in {"idle", "failed"}
      BY <2>3 DEF Acquire, Acquirable, SeenJob
    <3> QED
      BY <2>1, <2>3, <3>1 DEF SeenRuns, RunningLocked
  <2> QED
    BY <2>2, <2>3
<1> QED
  BY <1>8, <1>9, <1>10, <1>11, <1>12

\* The operator's switches and the end of a lease change nothing but the job.
LEMMA LeaseSwitched ==
    ASSUME TypeOK, LeaseInv, "slow_commit" \notin Mishaps,
           (\E on \in BOOLEAN : Toggle(on)) \/ DisableConfig \/ LeaseExpires
    PROVE  LeaseInv'
<1> USE DEF LeaseInv
<1>1. runs' = runs /\ worker' = worker
  BY DEF Toggle, DisableConfig, LeaseExpires
<1>2. OneTaskPerRun' /\ TaskRunTaken'
  BY <1>1 DEF OneTaskPerRun, TaskRunTaken
<1>3. ASSUME NEW on \in BOOLEAN, Toggle(on) PROVE LeaseInv'
  <2>1. job'.owner = job.owner /\ job'.lease = job.lease
        /\ job'.status = IF on THEN "idle" ELSE "disabled"
    BY <1>3 DEF Toggle, TypeOK, JobState
  <2>2. \A k \in Key : runs'[k].status # "running"
    BY <1>1, <1>3 DEF Toggle, ActiveRun
  <2>3. FreeJobUnleased'
    <3>1. on => job.lease # "live"
      BY <1>3, Zenon DEF Toggle
    <3>2. CASE on
      BY <2>1, <3>1, <3>2 DEF FreeJobUnleased
    <3>3. CASE ~on
      BY <2>1, <3>3 DEF FreeJobUnleased
    <3> QED
      BY <3>2, <3>3
  <2> QED
    BY <1>1, <1>2, <2>1, <2>2, <2>3 DEF WriterHoldsLease, RunningLocked
<1>4. CASE DisableConfig
  <2>1. job'.owner = job.owner /\ job'.lease = job.lease /\ job'.status = "disabled"
    BY <1>4 DEF DisableConfig, TypeOK, JobState
  <2> QED
    BY <1>1, <1>2, <2>1 DEF WriterHoldsLease, FreeJobUnleased, RunningLocked
<1>5. CASE LeaseExpires
  <2>1. job'.owner = job.owner /\ job'.lease = "expired" /\ job'.status = job.status
    BY <1>5 DEF LeaseExpires, TypeOK, JobState
  <2>2. \A w \in Worker : worker[w].pc \notin Unchecked
    BY <1>5 DEF LeaseExpires, WriterHoldsLease, OnRun, InRun, Unchecked
  <2> QED
    BY <1>1, <1>2, <2>1, <2>2 DEF WriterHoldsLease, FreeJobUnleased, RunningLocked
<1> QED
  BY <1>3, <1>4, <1>5

LEMMA LeaseInvInductive ==
    ASSUME TypeOK, LeaseInv, "slow_commit" \notin Mishaps, [Next]_vars
    PROVE  LeaseInv'
<1>1. ASSUME NEW w \in Worker, TaskStep(w) PROVE LeaseInv'
  <2>1. CASE \/ YieldForCredential(w) \/ CommitAndYield(w) \/ CommitLastPage(w) \/ FailRun(w)
             \/ AnswerExisting(w) \/ Acquire(w)
    BY <2>1, LeaseGivenBack, LeaseAnswered, LeaseTaken
  <2>2. CASE ~(\/ YieldForCredential(w) \/ CommitAndYield(w) \/ CommitLastPage(w) \/ FailRun(w)
               \/ AnswerExisting(w) \/ Acquire(w))
    <3>1. QuietRuns /\ TasksContinue
      BY <1>1, <2>2, TaskRunsQuiet, TaskContinues
    <3>2. job' = job
      BY <1>1, <2>2 DEF TaskStep, Receive, Claim, ClaimRefused, Defer, RejectPreflight,
            RefuseAcquire, Renew, Fetch, RenewForCommit, CommitPage, CommitFails, ErrorNotOwner,
            Retry, GiveUp, Report, FindQueuedRun, FailQueuedRun, BlockDispatch, RunUnchanged
    <3> QED
      BY <3>1, <3>2, LeaseKept
  <2> QED
    BY <2>1, <2>2
<1>2. ASSUME SchedulerStep \/ OperatorStep \/ EnvironmentStep \/ UNCHANGED vars PROVE LeaseInv'
  <2>1. CASE job' = job
    BY <1>2, <2>1, OtherRunsQuiet, OtherContinues, LeaseKept
  <2>2. \/ job' = job
        \/ RecoverRunning
        \/ (\E on \in BOOLEAN : Toggle(on)) \/ DisableConfig \/ LeaseExpires
    BY <1>2 DEF SchedulerStep, OperatorStep, EnvironmentStep, vars, ReconcileDue, DispatchDue,
         RecoverUnstarted, RecoverOrphan, Publish, PublishFails, UnsentRunDeleted, ResumeSubmit, EnqueueManual,
         Crash, PublisherCrash, LoseMessage
  <2> QED
    BY <2>1, <2>2, LeaseAfterTick, LeaseSwitched
<1> QED
  BY <1>1, <1>2 DEF Next

LEMMA LeaseInvInitially == Init => LeaseInv
BY NewRunFresh DEF Init, Idle, LeaseInv, OneTaskPerRun, TaskRunTaken, WriterHoldsLease,
   FreeJobUnleased, RunningLocked, InRun, Unchecked

LEMMA LeaseInvariant ==
    ASSUME "slow_commit" \notin Mishaps
    PROVE  Spec => [](TypeOK /\ LeaseInv)
<1>1. Init => TypeOK /\ LeaseInv
  BY InitTyped, LeaseInvInitially
<1>2. TypeOK /\ LeaseInv /\ [Next]_vars => (TypeOK /\ LeaseInv)'
  BY NextTyped, LeaseInvInductive
<1> QED
  BY <1>1, <1>2, PTL DEF Spec

\* Provided no worker sleeps through its lease between its last look at it and its
\* commit, a run is running only under its own lock: no two runs of the job at once.
THEOREM RunsHoldLock ==
    ASSUME "slow_commit" \notin Mishaps
    PROVE  Spec => []RunHoldsLock
<1>1. LeaseInv => RunHoldsLock
  BY DEF LeaseInv, RunningLocked, RunHoldsLock
<1> QED
  BY <1>1, LeaseInvariant, PTL

\* Under the same proviso there is one writer at a time among all workers, however
\* many have lost their lease, crashed or been sent the same message.
THEOREM WritersExclude ==
    ASSUME "slow_commit" \notin Mishaps
    PROVE  Spec => []SingleWriter
<1>1. LeaseInv => SingleWriter
  BY DEF LeaseInv, OneTaskPerRun, WriterHoldsLease, SingleWriter, Unchecked, InRun
<1> QED
  BY <1>1, LeaseInvariant, PTL

-----------------------------------------------------------------------------
(***************************************************************************)
(* The counted pages.  Unlike the lock, they need no assumption about how  *)
(* long a worker is held up: that a run is executed by one worker at a     *)
(* time, and neither waits nor is missing meanwhile, is inductive on its   *)
(* own.                                                                    *)
(***************************************************************************)
TakenInv == OneTaskPerRun /\ TaskRunTaken

LEMMA TakenInvInductive ==
    ASSUME TypeOK, TakenInv, [Next]_vars
    PROVE  TakenInv'
<1> USE DEF TakenInv
<1>0. \A w \in Worker : worker[w].pc \in InRun => worker[w].key \in Key /\ worker[w].pc # "idle"
  BY TaskTyped DEF InRun
<1>1. ASSUME TasksContinue, QuietRuns PROVE TakenInv'
  <2>1. OneTaskPerRun'
    BY <1>1 DEF OneTaskPerRun, TasksContinue
  <2>2. TaskRunTaken'
    BY <1>0, <1>1 DEF TaskRunTaken, TasksContinue, QuietRuns, RunKept, RunEnds, RunFresh
  <2> QED
    BY <2>1, <2>2
<1>2. ASSUME NEW w \in Worker, YieldForCredential(w) \/ CommitAndYield(w) PROVE TakenInv'
  <2>1. TasksContinue
    <3>1. ~Acquire(w)
      BY <1>2 DEF Acquire, YieldForCredential, CommitAndYield
    <3> QED
      BY <1>2, <3>1, TaskContinues DEF TaskStep
  <2>2. worker[w].pc \in InRun /\ worker'[w].pc = "report"
    BY <1>2, LeaveContinues DEF YieldForCredential, CommitAndYield, Yielded, InRun
  <2>3. ASSUME NEW k \in Key, k # worker[w].key PROVE RunKept(k)
    <3>1. CASE YieldForCredential(w)
      <4>1. Yielded(w, runs[worker[w].key])
        BY <3>1 DEF YieldForCredential
      <4> QED
        BY <1>0, <2>2, <2>3, <4>1, YieldedRun DEF TypeOK
    <3>2. CASE CommitAndYield(w)
      <4>1. PICK r \in RunState : r = SavedRun(w) /\ runs[worker[w].key] \in RunState
        BY <1>0, <2>2, SavedRunTyped DEF TypeOK
      <4>2. r.seq = runs[worker[w].key].seq /\ r.started = runs[worker[w].key].started
        BY <4>1 DEF SavedRun, RunState
      <4>3. Yielded(w, r)
        BY <3>2, <4>1 DEF CommitAndYield
      <4> QED
        BY <1>0, <2>2, <2>3, <4>2, <4>3, YieldedRun
    <3> QED
      BY <1>2, <3>1, <3>2
  <2>4. OneTaskPerRun'
    BY <2>1 DEF OneTaskPerRun, TasksContinue
  <2>5. ASSUME NEW v \in Worker, worker'[v].pc \in InRun
        PROVE  runs'[worker'[v].key].status \notin {"absent", "queued"}
    <3>1. v # w /\ worker[v].pc \in InRun /\ worker'[v].key = worker[v].key
      BY <2>1, <2>2, <2>5 DEF TasksContinue, InRun
    <3>2. worker[v].key \in Key /\ worker[v].key # worker[w].key
      BY <1>0, <2>2, <3>1 DEF OneTaskPerRun
    <3> QED
      BY <2>3, <3>1, <3>2 DEF RunKept, TaskRunTaken
  <2> QED
    BY <2>4, <2>5 DEF TaskRunTaken
<1>3. ASSUME NEW w \in Worker, Acquire(w) PROVE TakenInv'
  <2>1. PICK k \in Key : k = worker[w].key
    BY <1>3, TaskTyped DEF Acquire
  <2>2. /\ worker'[w].pc = "loop" /\ worker'[w].key = k
        /\ \A v \in Worker \ {w} : worker'[v] = worker[v]
    BY <1>3, <2>1 DEF Acquire, TypeOK, TaskState
  <2>3. RunStarts(k) /\ \A j \in Key \ {k} : RunKept(j) \/ RunEnds(j)
    BY <1>3, <2>1, AcquiredRun
  <2>4. \A v \in Worker : worker'[v].pc \in InRun /\ v # w => worker[v].key # k
    BY <2>2, <2>3 DEF TaskRunTaken, RunStarts
  <2>5. OneTaskPerRun'
    BY <2>2, <2>4 DEF OneTaskPerRun
  <2>6. ASSUME NEW v \in Worker, worker'[v].pc \in InRun
        PROVE  runs'[worker'[v].key].status \notin {"absent", "queued"}
    <3>1. CASE v = w
      BY <2>2, <2>3, <3>1 DEF RunStarts
    <3>2. CASE v # w
      <4>1. worker'[v] = worker[v] /\ worker[v].key \in Key \ {k}
        BY <1>0, <2>2, <2>4, <2>6, <3>2
      <4> QED
        BY <2>3, <2>6, <4>1 DEF TaskRunTaken, RunKept, RunEnds
    <3> QED
      BY <3>1, <3>2
  <2> QED
    BY <2>5, <2>6 DEF TaskRunTaken
<1>4. ASSUME NEW w \in Worker, TaskStep(w) PROVE TakenInv'
  BY <1>1, <1>2, <1>3, <1>4, TaskRunsQuiet, TaskContinues
<1> QED
  BY <1>1, <1>4, OtherRunsQuiet, OtherContinues DEF Next

LEMMA TakenInvariant == Spec => []TakenInv
<1>1. Init => TakenInv
  BY DEF Init, Idle, TakenInv, OneTaskPerRun, TaskRunTaken, InRun
<1> QED
  BY <1>1, TypeCorrect, TakenInvInductive, PTL DEF Spec

\* A task counts in memory what is committed, except after a page transaction that
\* was rolled back.
Counting == InRun \ {"error"}

TaskPages ==
    \A w \in Worker : worker[w].pc \in Counting => worker[w].pages = runs[worker[w].key].pages

PagesInv == PagesCounted /\ \A k \in Key : runs[k].status = "absent" => runs[k].pages = 0

PagesKept(k) ==
    /\ runs'[k].pages = runs[k].pages /\ written'[k] = written[k]
    /\ runs'[k].status = "absent" => runs[k].pages = 0

PageAdded(k) ==
    /\ runs'[k].pages = runs[k].pages + 1 /\ written'[k] = written[k] + 1
    /\ runs'[k].status # "absent"

\* What a page transaction saves.
LEMMA SavedPages ==
    ASSUME TypeOK, NEW w \in Worker, worker[w].pc # "idle", worker[w].pages = runs[worker[w].key].pages
    PROVE  /\ SavedRun(w).pages = runs[worker[w].key].pages + 1
           /\ SavedRun(w).status = runs[worker[w].key].status
<1>1. runs[worker[w].key] \in RunState
  BY TaskTyped
<1> QED
  BY <1>1 DEF SavedRun, RunState

LEMMA PagesFailed ==
    ASSUME TypeOK, PagesInv, runs' = FailedRuns \/ runs' = SeenRuns, written' = written, NEW k \in Key
    PROVE  PagesKept(k)
<1>1. runs[k] \in RunState
  BY DEF TypeOK
<1>2. runs'[k] = runs[k] \/ runs'[k] = [runs[k] EXCEPT !.status = "failed"]
  BY DEF SeenRuns, FailedRuns
<1> QED
  BY <1>1, <1>2 DEF RunState, PagesKept, PagesInv

LEMMA PageCommitted ==
    ASSUME TypeOK, NEW w \in Worker, worker[w].pc # "idle",
           PageWritten(w), NEW r \in RunState, r.status # "absent",
           r.pages = runs[worker[w].key].pages + 1,
           runs' = [runs EXCEPT ![worker[w].key] = r]
    PROVE  /\ PageAdded(worker[w].key)
           /\ \A k \in Key : k # worker[w].key => runs'[k] = runs[k] /\ written'[k] = written[k]
BY TaskTyped DEF TypeOK, PageWritten, PageAdded

\* The run whose page is committed, in each of the three page transactions.
LEMMA CommitAddsPage ==
    ASSUME TypeOK, TakenInv, PagesInv, TaskPages, NEW w \in Worker,
           CommitPage(w) \/ CommitAndYield(w) \/ CommitLastPage(w)
    PROVE  /\ PageAdded(worker[w].key)
           /\ \A k \in Key : k # worker[w].key => PagesKept(k)
<1>1. worker[w].pc = "commit" /\ worker[w].key \in Key
  BY TaskTyped DEF CommitPage, CommitAndYield, CommitLastPage
<1>2. /\ worker[w].pages = runs[worker[w].key].pages
      /\ runs[worker[w].key].status # "absent"
  BY <1>1 DEF TaskPages, Counting, InRun, TakenInv, TaskRunTaken
<1>3. PICK r \in RunState : r = SavedRun(w)
  BY <1>1, SavedRunTyped
<1>4. r.pages = runs[worker[w].key].pages + 1 /\ r.status # "absent"
  BY <1>1, <1>2, <1>3, SavedPages
<1>5. ASSUME NEW q \in RunState, q.status # "absent", q.pages = r.pages, PageWritten(w),
             runs' = [runs EXCEPT ![worker[w].key] = q]
      PROVE  /\ PageAdded(worker[w].key)
             /\ \A k \in Key : k # worker[w].key => PagesKept(k)
  BY <1>1, <1>4, <1>5, PageCommitted DEF PagesKept, PagesInv
<1>6. CASE CommitPage(w)
  BY <1>3, <1>4, <1>5, <1>6 DEF CommitPage
<1>7. CASE CommitAndYield(w)
  <2>1. PICK q : q = [r EXCEPT !.status = "queued", !.seq = r.seq + 1, !.pending = TRUE]
    OBVIOUS
  <2>2. r.seq + 1 \in 0..MaxSlices
    BY <1>3, <1>7, SyncAssumption DEF CommitAndYield, Yielded, RunState
  <2>3. q \in RunState /\ q.status # "absent" /\ q.pages = r.pages
    BY <2>1, <2>2 DEF RunState
  <2>4. PageWritten(w) /\ runs' = [runs EXCEPT ![worker[w].key] = q]
    BY <1>3, <1>7, <2>1 DEF CommitAndYield, Yielded
  <2> QED
    BY <1>5, <2>3, <2>4
<1>8. CASE CommitLastPage(w)
  <2>1. PICK q : q = [r EXCEPT !.status = "success"]
    OBVIOUS
  <2>2. q \in RunState /\ q.status # "absent" /\ q.pages = r.pages
    BY <2>1 DEF RunState
  <2>3. PageWritten(w) /\ runs' = [runs EXCEPT ![worker[w].key] = q]
    BY <1>3, <1>8, <2>1 DEF CommitLastPage
  <2> QED
    BY <1>5, <2>2, <2>3
<1> QED
  BY <1>6, <1>7, <1>8

\* Every other transaction of a task leaves counters and pages as they are.
LEMMA TaskKeepsPages ==
    ASSUME TypeOK, PagesInv, TaskPages, NEW w \in Worker, TaskStep(w),
           ~CommitPage(w), ~CommitAndYield(w), ~CommitLastPage(w), NEW k \in Key
    PROVE  PagesKept(k)
<1>1. ASSUME worker[w].pc # "idle"
      PROVE  worker[w].key \in Key /\ runs[worker[w].key] \in RunState
  BY <1>1, TaskTyped
<1>2. runs \in [Key -> RunState] /\ NewRun.pages = 0 /\ NewRun \in RunState
  BY NewRunTyped DEF TypeOK, NewRun, NoRun
<1>3. CASE Defer(w)
  <2>1. PICK j \in Key : j = worker[w].key
    BY <1>1, <1>3 DEF Defer
  <2>2. PICK r \in RunState : r = IF runs[j].status = "absent" THEN NewRun ELSE runs[j]
    BY <1>2
  <2>3. /\ runs' = [runs EXCEPT ![j] = [r EXCEPT !.pending = TRUE, !.waits = r.waits + 1]]
        /\ written' = written
    BY <1>3, <2>1, <2>2 DEF Defer
  <2>4. r.pages = runs[j].pages
    BY <1>2, <2>2 DEF PagesInv
  <2>5. /\ runs'[j].pages = r.pages /\ runs'[j].status = r.status
        /\ k # j => runs'[k] = runs[k]
    BY <1>2, <2>2, <2>3 DEF RunState
  <2> QED
    BY <1>2, <2>3, <2>4, <2>5, <2>2 DEF PagesKept, PagesInv
<1>4. CASE Acquire(w)
  <2>1. PICK j \in Key, s \in 0..MaxSlices : j = worker[w].key /\ s = worker[w].seq
    BY <1>4, TaskTyped DEF Acquire
  <2>2. PICK r \in RunState : r = IF SeenRuns[j].status = "absent" THEN NewRun ELSE SeenRuns[j]
    BY SeenTyped, NewRunTyped
  <2>3. /\ runs' = [SeenRuns EXCEPT ![j] = [r EXCEPT !.status = "running", !.seq = s,
                       !.pending = FALSE, !.started = r.started \cup {s}]]
        /\ written' = written
    BY <1>4, <2>1, <2>2 DEF Acquire
  <2>4. \A i \in Key : /\ SeenRuns[i].pages = runs[i].pages
                       /\ SeenRuns[i].status = "absent" => runs[i].status = "absent"
    BY <1>2 DEF SeenRuns, FailedRuns, RunState
  <2>5. r.pages = runs[j].pages
    BY <1>2, <2>2, <2>4 DEF PagesInv
  <2>6. /\ runs'[j].pages = r.pages /\ runs'[j].status = "running"
        /\ k # j => runs'[k] = SeenRuns[k]
    BY <2>2, <2>3, SeenTyped DEF RunState
  <2> QED
    BY <2>3, <2>4, <2>5, <2>6 DEF PagesKept, PagesInv
<1>5. CASE AnswerExisting(w)
  BY <1>5, PagesFailed DEF AnswerExisting
<1>6. CASE YieldForCredential(w)
  <2>1. PICK j \in Key, r \in RunState : j = worker[w].key /\ r = runs[j]
    BY <1>1, <1>6 DEF YieldForCredential
  <2>2. /\ runs' = [runs EXCEPT ![j] = [r EXCEPT !.status = "queued", !.seq = r.seq + 1,
                                                !.pending = TRUE]]
        /\ written' = written
    BY <1>6, <2>1 DEF YieldForCredential, Yielded
  <2> QED
    BY <1>2, <2>1, <2>2 DEF RunState, PagesKept, PagesInv
<1>7. CASE Retry(w)
  BY <1>2, <1>7 DEF Retry, RunState, PagesKept, PagesInv
<1>8. CASE FailRun(w)
  <2>1. worker[w].key \in Key /\ worker[w].pages = runs[worker[w].key].pages
    BY <1>1, <1>8 DEF FailRun, TaskPages, Counting, InRun
  <2> QED
    BY <1>2, <1>8, <2>1 DEF FailRun, RunState, PagesKept, PagesInv
<1>9. CASE FailQueuedRun(w)
  BY <1>2, <1>9 DEF FailQueuedRun, RunState, PagesKept, PagesInv
<1>10. CASE runs' = runs /\ written' = written
  BY <1>10 DEF PagesKept, PagesInv
<1>11. \/ Defer(w) \/ Acquire(w) \/ AnswerExisting(w) \/ YieldForCredential(w) \/ Retry(w)
       \/ FailRun(w) \/ FailQueuedRun(w) \/ (runs' = runs /\ written' = written)
  BY DEF TaskStep, Receive, Claim, ClaimRefused, RejectPreflight, RefuseAcquire, Renew, Fetch,
         RenewForCommit, CommitFails, ErrorNotOwner, GiveUp, Report, FindQueuedRun,
         BlockDispatch, RunUnchanged
<1> QED
  BY <1>3, <1>4, <1>5, <1>6, <1>7, <1>8, <1>9, <1>10, <1>11

\* So do the scheduler, which deletes only runs without pages, the operator and the
\* environment.
LEMMA OtherKeepsPages ==
    ASSUME TypeOK, PagesInv, SchedulerStep \/ OperatorStep \/ EnvironmentStep \/ UNCHANGED vars,
           NEW k \in Key
    PROVE  PagesKept(k)
<1>1. runs \in [Key -> RunState] /\ NewRun.pages = 0 /\ NoRun.pages = 0 /\ NewRun.status = "queued"
  BY DEF TypeOK, NewRun, NoRun
<1>2. ASSUME NEW j \in Key, PublishFails(j) PROVE PagesKept(k)
  BY <1>1, <1>2 DEF PublishFails, UnsentRunDeleted, PagesKept, PagesInv
<1>3. ASSUME NEW j \in Key, EnqueueManual(j) PROVE PagesKept(k)
  BY <1>1, <1>3 DEF EnqueueManual, PagesKept, PagesInv
<1>4. CASE RecoverRunning
  BY <1>4, PagesFailed DEF RecoverRunning
<1>5. CASE runs' = runs /\ written' = written
  BY <1>5 DEF PagesKept, PagesInv
<1>6. RecoverRunning \/ (\E j \in Key : PublishFails(j)) \/ (\E j \in Manual : EnqueueManual(j))
      \/ (runs' = runs /\ written' = written)
  BY DEF SchedulerStep, OperatorStep, EnvironmentStep, vars, ReconcileDue, DispatchDue,
         RecoverUnstarted, RecoverOrphan, Publish, ResumeSubmit, Toggle, DisableConfig,
         LeaseExpires, Crash, PublisherCrash, LoseMessage
<1> QED
  BY <1>2, <1>3, <1>4, <1>5, <1>6 DEF Key

\* A step of a task changes no other task ...
LEMMA OwnTaskOnly ==
    ASSUME TypeOK, NEW w \in Worker, TaskStep(w), NEW v \in Worker, v # w
    PROVE  worker'[v] = worker[v]
<1>1. worker' = worker \/ \E t : worker' = [worker EXCEPT ![w] = t]
  <2>1. ASSUME NEW pc, Step(w, pc) PROVE \E t : worker' = [worker EXCEPT ![w] = t]
    BY <2>1 DEF Step
  <2>2. ASSUME NEW pc, NEW r, Leave(w, pc, r) PROVE \E t : worker' = [worker EXCEPT ![w] = t]
    BY <2>2 DEF Leave
  <2>3. ASSUME EndTask(w) PROVE \E t : worker' = [worker EXCEPT ![w] = t]
    BY <2>3 DEF EndTask
  <2>4. CASE \/ \E m \in broker : Receive(w, m)
             \/ Acquire(w) \/ Fetch(w) \/ CommitPage(w) \/ CommitFails(w) \/ Retry(w) \/ GiveUp(w)
    BY <2>1, <2>4 DEF Receive, Acquire, Fetch, CommitPage, CommitFails, Retry, GiveUp
  <2>5. CASE ClaimRefused(w) \/ Defer(w) \/ Report(w) \/ BlockDispatch(w)
    BY <2>3, <2>5 DEF ClaimRefused, Defer, Report, BlockDispatch
  <2>6. CASE \/ Claim(w) \/ RejectPreflight(w) \/ RefuseAcquire(w) \/ FindQueuedRun(w)
             \/ FailQueuedRun(w) \/ Renew(w) \/ RenewForCommit(w)
    BY <2>1, <2>6 DEF Claim, RejectPreflight, RefuseAcquire, FindQueuedRun, FailQueuedRun,
                      Renew, RenewForCommit
  <2>7. CASE \/ AnswerExisting(w) \/ YieldForCredential(w) \/ CommitAndYield(w)
             \/ CommitLastPage(w) \/ ErrorNotOwner(w) \/ FailRun(w)
    BY <2>2, <2>7 DEF AnswerExisting, YieldForCredential, CommitAndYield, Yielded,
                      CommitLastPage, ErrorNotOwner, FailRun
  <2> QED
    BY <2>4, <2>5, <2>6, <2>7 DEF TaskStep
<1> QED
  BY <1>1 DEF TypeOK

\* ... and leaves its own in its run only by the steps of the page loop.
LoopStep(w) ==
    \/ Acquire(w) \/ Renew(w) \/ Fetch(w) \/ RenewForCommit(w) \/ CommitPage(w) \/ CommitFails(w)
    \/ Retry(w) \/ GiveUp(w)

LEMMA InRunByLoopStep ==
    ASSUME TypeOK, NEW w \in Worker, TaskStep(w), worker'[w].pc \in InRun
    PROVE  LoopStep(w)
<1>1. ASSUME NEW pc, pc \notin InRun, Step(w, pc) PROVE FALSE
  BY <1>1, StepContinues
<1>2. ASSUME NEW pc, NEW r, pc \notin InRun, Leave(w, pc, r) PROVE FALSE
  BY <1>2, LeaveContinues
<1>3. ASSUME EndTask(w) PROVE FALSE
  BY <1>3 DEF EndTask, TypeOK, Idle, InRun
<1>4. ASSUME NEW m \in broker, Receive(w, m) PROVE FALSE
  <2>1. \/ worker' = worker
        \/ \E pc \in {"received", "claimed"} :
              worker' = [worker EXCEPT ![w] =
                  [Idle EXCEPT !.pc = pc, !.key = m.key, !.seq = m.seq]]
    BY <1>4, Zenon DEF Receive
  <2>2. worker[w].pc = "idle"
    BY <1>4 DEF Receive
  <2> QED
    BY <2>1, <2>2 DEF TypeOK, Idle, InRun
<1>5. CASE ClaimRefused(w) \/ Defer(w) \/ Report(w) \/ BlockDispatch(w)
  BY <1>3, <1>5 DEF ClaimRefused, Defer, Report, BlockDispatch
<1>6. CASE \/ Claim(w) \/ RejectPreflight(w) \/ RefuseAcquire(w) \/ FindQueuedRun(w)
           \/ FailQueuedRun(w)
  BY <1>1, <1>6 DEF Claim, RejectPreflight, RefuseAcquire, FindQueuedRun, FailQueuedRun, InRun
<1>7. CASE \/ AnswerExisting(w) \/ YieldForCredential(w) \/ CommitAndYield(w)
           \/ CommitLastPage(w) \/ ErrorNotOwner(w) \/ FailRun(w)
  BY <1>2, <1>7 DEF AnswerExisting, YieldForCredential, CommitAndYield, Yielded,
                    CommitLastPage, ErrorNotOwner, FailRun, InRun
<1> QED
  BY <1>4, <1>5, <1>6, <1>7 DEF TaskStep, LoopStep

\* What a loop step leaves in the task: three keep the counters, one reads them with
\* the lease, one adds the committed page, two read them again.
LEMMA LoopTask ==
    ASSUME TypeOK, NEW w \in Worker, LoopStep(w)
    PROVE  /\ worker'[w].key = worker[w].key
           /\ Renew(w) \/ Fetch(w) \/ RenewForCommit(w) => worker'[w].pages = worker[w].pages
           /\ CommitPage(w) => worker'[w].pages = worker[w].pages + 1
           /\ CommitFails(w) => worker'[w].pc = "error"
           /\ Retry(w) \/ GiveUp(w) => worker'[w].pages = runs[worker[w].key].pages
<1>0. worker[w] \in TaskState /\ worker \in [Worker -> TaskState]
  BY DEF TypeOK
<1>1. CASE Acquire(w)
  BY <1>0, <1>1 DEF Acquire, TaskState, Renew, Fetch, RenewForCommit, CommitPage, CommitFails, Retry, GiveUp
<1>2. ASSUME NEW pc, Step(w, pc) PROVE worker'[w].key = worker[w].key /\ worker'[w].pages = worker[w].pages
  BY <1>0, <1>2 DEF Step, TaskState
<1>3. CASE Renew(w)
  BY <1>2, <1>3 DEF Renew, Fetch, RenewForCommit, CommitPage, CommitFails, Retry, GiveUp
<1>4. CASE Fetch(w)
  <2>1. worker'[w].key = worker[w].key /\ worker'[w].pages = worker[w].pages
    BY <1>0, <1>2, <1>4 DEF Fetch, TaskState
  <2> QED
    BY <1>4, <2>1 DEF Renew, Fetch, RenewForCommit, CommitPage, CommitFails, Retry, GiveUp
<1>5. CASE RenewForCommit(w)
  BY <1>2, <1>5 DEF Renew, Fetch, RenewForCommit, CommitPage, CommitFails, Retry, GiveUp
<1>6. CASE CommitPage(w)
  <2>1. worker'[w].key = worker[w].key /\ worker'[w].pages = worker[w].pages + 1
        /\ worker'[w].pc = "loop" /\ worker[w].pc = "commit"
    BY <1>0, <1>6 DEF CommitPage, TaskState
  <2>2. ~CommitFails(w)
    <3>1. ASSUME CommitFails(w) PROVE worker'[w].pc = "error"
      BY <1>0, <3>1 DEF CommitFails, TaskState
    <3> QED
      BY <2>1, <3>1
  <2> QED
    BY <2>1, <2>2 DEF Renew, Fetch, RenewForCommit, Retry, GiveUp
<1>7. CASE CommitFails(w)
  <2>1. worker'[w].key = worker[w].key /\ worker'[w].pc = "error" /\ worker[w].pc = "commit"
    BY <1>0, <1>7 DEF CommitFails, TaskState
  <2>2. ~CommitPage(w)
    <3>1. ASSUME CommitPage(w) PROVE worker'[w].pc = "loop"
      BY <1>0, <3>1 DEF CommitPage, TaskState
    <3> QED
      BY <2>1, <3>1
  <2> QED
    BY <2>1, <2>2 DEF Renew, Fetch, RenewForCommit, Retry, GiveUp
<1>8. CASE Retry(w) \/ GiveUp(w)
  <2>1. worker[w].pc = "error"
    BY <1>8 DEF Retry, GiveUp
  <2>2. \A lockError \in BOOLEAN :
            /\ Refreshed(w, lockError) \in TaskState
            /\ Refreshed(w, lockError).key = worker[w].key
            /\ Refreshed(w, lockError).pages = runs[worker[w].key].pages
    <3>1. ASSUME NEW lockError \in BOOLEAN
          PROVE  Refreshed(w, lockError).pages = runs[worker[w].key].pages
      BY <1>0 DEF Refreshed, TaskState
    <3> QED
      BY <2>1, <3>1, RefreshedTask
  <2>3. worker'[w].key = worker[w].key /\ worker'[w].pages = runs[worker[w].key].pages
    <3>1. \E lockError \in BOOLEAN : \E pc, n :
              \/ worker' = [worker EXCEPT ![w] = [Refreshed(w, lockError) EXCEPT !.pc = pc, !.locks = n]]
              \/ worker' = [worker EXCEPT ![w] = [Refreshed(w, lockError) EXCEPT !.pc = pc]]
      BY <1>8 DEF Retry, GiveUp
    <3>2. PICK t \in TaskState :
              /\ t.key = worker[w].key /\ t.pages = runs[worker[w].key].pages
              /\ \E pc, n : \/ worker' = [worker EXCEPT ![w] = [t EXCEPT !.pc = pc, !.locks = n]]
                           \/ worker' = [worker EXCEPT ![w] = [t EXCEPT !.pc = pc]]
      BY <2>2, <3>1
    <3> QED
      BY <1>0, <3>2 DEF TaskState
  <2> QED
    BY <2>1, <2>3 DEF Renew, Fetch, RenewForCommit, CommitPage, CommitFails
<1> QED
  BY <1>1, <1>3, <1>4, <1>5, <1>6, <1>7, <1>8 DEF LoopStep

LEMMA TaskPagesInductive ==
    ASSUME TypeOK, TakenInv, PagesInv, TaskPages, [Next]_vars
    PROVE  TaskPages'
<1>0. \A w \in Worker : worker[w].pc \in Counting => worker[w].pc \in InRun /\ worker[w].key \in Key
  BY TaskTyped DEF Counting, InRun
<1>1. ASSUME NEW w \in Worker, TaskStep(w) PROVE TaskPages'
  <2> DEFINE committed == CommitPage(w) \/ CommitAndYield(w) \/ CommitLastPage(w)
  <2>1. \A k \in Key : ~committed \/ k # worker[w].key => PagesKept(k)
    BY <1>1, CommitAddsPage, TaskKeepsPages
  <2>2. committed => worker[w].pc \in InRun
    BY DEF CommitPage, CommitAndYield, CommitLastPage, InRun
  <2> HIDE DEF committed
  <2>3. ASSUME NEW v \in Worker, v # w, worker'[v].pc \in Counting
        PROVE  worker'[v].pages = runs'[worker'[v].key].pages
    <3>1. worker'[v] = worker[v]
      BY <1>1, <2>3, OwnTaskOnly
    <3>2. worker[v].pc \in InRun /\ worker[v].key \in Key
      BY <1>0, <2>3, <3>1
    <3>3. PagesKept(worker[v].key)
      BY <2>1, <2>2, <2>3, <3>2 DEF TakenInv, OneTaskPerRun
    <3> QED
      BY <2>3, <3>1, <3>3 DEF PagesKept, TaskPages
  <2>4. ASSUME worker'[w].pc \in Counting
        PROVE  worker'[w].pages = runs'[worker'[w].key].pages
    <3>1. LoopStep(w)
      BY <1>1, <2>4, InRunByLoopStep DEF Counting
    <3>2. worker[w].pc # "idle" /\ worker[w].key \in Key /\ worker'[w].key = worker[w].key
      <4>1. worker[w].pc # "idle"
        BY <3>1 DEF LoopStep, Acquire, Renew, Fetch, RenewForCommit, CommitPage, CommitFails, Retry, GiveUp
      <4> QED
        BY <3>1, <4>1, LoopTask, TaskTyped
    <3>3. CASE Renew(w) \/ Fetch(w) \/ RenewForCommit(w)
      <4>1. worker[w].pc \in Counting /\ runs' = runs
        BY <3>3 DEF Renew, Fetch, RenewForCommit, RunUnchanged, Counting, InRun
      <4> QED
        BY <3>1, <3>2, <3>3, <4>1, LoopTask DEF TaskPages
    <3>4. CASE Acquire(w)
      <4>1. PICK j \in Key, s \in 0..MaxSlices : j = worker[w].key /\ s = worker[w].seq
        BY <3>2, TaskTyped
      <4>2. PICK r \in RunState : r = IF SeenRuns[j].status = "absent" THEN NewRun ELSE SeenRuns[j]
        BY SeenTyped, NewRunTyped
      <4>3. runs' = [SeenRuns EXCEPT ![j] = [r EXCEPT !.status = "running", !.seq = s,
                         !.pending = FALSE, !.started = r.started \cup {s}]]
        BY <3>4, <4>1, <4>2 DEF Acquire
      <4>4. runs'[j].pages = r.pages
        BY <4>3, SeenTyped DEF RunState
      <4>5. worker' = [worker EXCEPT ![w].pc = "loop", ![w].cursor = cursor, ![w].pages = r.pages]
        BY <3>4, <4>1, <4>2 DEF Acquire
      <4>6. worker'[w].pages = r.pages
        BY <4>5 DEF TypeOK, TaskState
      <4> QED
        BY <3>2, <4>1, <4>4, <4>6
    <3>5. CASE CommitPage(w)
      <4>1. worker[w].pc \in Counting
        BY <3>5 DEF CommitPage, Counting, InRun
      <4>2. PageAdded(worker[w].key)
        BY <3>5, CommitAddsPage
      <4> QED
        BY <3>1, <3>2, <3>5, <4>1, <4>2, LoopTask DEF PageAdded, TaskPages
    <3>6. CASE CommitFails(w)
      BY <2>4, <3>1, <3>6, LoopTask DEF Counting
    <3>7. CASE Retry(w) \/ GiveUp(w)
      <4>1. ~committed
        BY <3>7 DEF committed, Retry, GiveUp, CommitPage, CommitAndYield, CommitLastPage
      <4>2. PagesKept(worker[w].key)
        BY <2>1, <3>2, <4>1
      <4> QED
        BY <3>1, <3>2, <3>7, <4>2, LoopTask DEF PagesKept
    <3> QED
      BY <3>1, <3>3, <3>4, <3>5, <3>6, <3>7 DEF LoopStep
  <2> QED
    BY <2>3, <2>4 DEF TaskPages
<1>2. ASSUME SchedulerStep \/ OperatorStep \/ EnvironmentStep \/ UNCHANGED vars PROVE TaskPages'
  <2>1. worker' = worker \/ \E w \in Worker : worker' = [worker EXCEPT ![w] = Idle]
    BY <1>2 DEF SchedulerStep, OperatorStep, EnvironmentStep, vars, ReconcileDue, DispatchDue,
         RecoverUnstarted, RecoverOrphan, Publish, PublishFails, UnsentRunDeleted, ResumeSubmit, RecoverRunning,
         EnqueueManual, Toggle, DisableConfig, LeaseExpires, Crash, PublisherCrash, LoseMessage
  <2>2. ASSUME NEW v \in Worker, worker'[v].pc \in Counting
        PROVE  worker'[v].pages = runs'[worker'[v].key].pages
    <3>1. worker'[v] = worker[v]
      BY <2>1, <2>2 DEF TypeOK, Idle, Counting, InRun
    <3>2. worker[v].key \in Key
      BY <1>0, <2>2, <3>1
    <3> QED
      BY <1>2, <2>2, <3>1, <3>2, OtherKeepsPages DEF PagesKept, TaskPages
  <2> QED
    BY <2>2 DEF TaskPages
<1> QED
  BY <1>1, <1>2 DEF Next

LEMMA PagesInvInductive ==
    ASSUME TypeOK, TakenInv, PagesInv, TaskPages, [Next]_vars
    PROVE  PagesInv'
<1>1. ASSUME NEW k \in Key
      PROVE  PagesKept(k) \/ PageAdded(k)
  <2>1. ASSUME NEW w \in Worker, TaskStep(w) PROVE PagesKept(k) \/ PageAdded(k)
    BY <2>1, CommitAddsPage, TaskKeepsPages
  <2> QED
    BY <2>1, OtherKeepsPages DEF Next
<1>2. \A k \in Key : runs[k].pages \in Nat
  BY DEF TypeOK, RunState
<1> QED
  BY <1>1, <1>2 DEF PagesInv, PagesCounted, PagesKept, PageAdded

\* The durable counters of a run count the pages that were committed: whatever was
\* rolled back, retried, resumed, recovered or delivered twice, and however long a
\* worker was held up.
THEOREM PagesCountedHolds == Spec => []PagesCounted
<1>1. Init => PagesInv /\ TaskPages
  <2>1. NoRun.pages = 0
    BY DEF NoRun
  <2> QED
    BY <2>1 DEF Init, PagesInv, PagesCounted, TaskPages, Idle, Counting, InRun
<1>2. TypeOK /\ TakenInv /\ (PagesInv /\ TaskPages) /\ [Next]_vars => (PagesInv /\ TaskPages)'
  BY TaskPagesInductive, PagesInvInductive
<1>3. PagesInv => PagesCounted
  BY DEF PagesInv
<1> QED
  BY <1>1, <1>2, <1>3, TypeCorrect, TakenInvariant, PTL DEF Spec

-----------------------------------------------------------------------------
(***************************************************************************)
(* The order of the pages.  The worker whose run holds the lock knows the  *)
(* cursor (CursorKnown): nobody else moves it, because a page is committed *)
(* only under the lease.                                                   *)
(***************************************************************************)
CursorKnown ==
    \A w \in Worker : worker[w].pc \in Counting /\ job.owner = worker[w].key =>
        /\ worker[w].cursor = cursor
        /\ worker[w].pc \in {"fetched", "commit"} => worker[w].page = cursor
        /\ worker[w].pc = "loop" => worker[w].page \in {NoPage, cursor}

\* A task begins without a page.
PagesForgotten == \A w \in Worker : worker[w].pc \notin InRun => worker[w].page = NoPage

\* What a worker knows once it has read its cursor and its run again.
LEMMA Reread ==
    ASSUME TypeOK, NEW w \in Worker, Retry(w) \/ GiveUp(w)
    PROVE  /\ worker'[w].pc \in {"loop", "failing"}
           /\ worker'[w].cursor = cursor
           /\ worker'[w].page \in {NoPage, cursor}
           /\ worker'[w].seq = worker[w].seq
<1>0. worker[w] \in TaskState /\ worker \in [Worker -> TaskState]
  BY DEF TypeOK
<1>1. worker[w].pc = "error"
  BY DEF Retry, GiveUp
<1>2. \A lockError \in BOOLEAN :
          /\ Refreshed(w, lockError) \in TaskState
          /\ Refreshed(w, lockError).cursor = cursor
          /\ Refreshed(w, lockError).page \in {NoPage, cursor}
          /\ Refreshed(w, lockError).seq = worker[w].seq
  <2>1. ASSUME NEW lockError \in BOOLEAN
        PROVE  /\ Refreshed(w, lockError).cursor = cursor
               /\ Refreshed(w, lockError).page \in {NoPage, cursor}
               /\ Refreshed(w, lockError).seq = worker[w].seq
    BY <1>0 DEF Refreshed, TaskState
  <2> QED
    BY <1>1, <2>1, RefreshedTask
<1>3. \E lockError \in BOOLEAN : \E n :
          \/ worker' = [worker EXCEPT ![w] = [Refreshed(w, lockError) EXCEPT !.pc = "loop", !.locks = n]]
          \/ worker' = [worker EXCEPT ![w] = [Refreshed(w, lockError) EXCEPT !.pc = "failing"]]
  BY DEF Retry, GiveUp
<1>4. PICK t \in TaskState :
          /\ t.cursor = cursor /\ t.page \in {NoPage, cursor} /\ t.seq = worker[w].seq
          /\ \E n : \/ worker' = [worker EXCEPT ![w] = [t EXCEPT !.pc = "loop", !.locks = n]]
                   \/ worker' = [worker EXCEPT ![w] = [t EXCEPT !.pc = "failing"]]
  BY <1>2, <1>3
<1>5. \/ \E n : worker'[w] = [t EXCEPT !.pc = "loop", !.locks = n]
      \/ worker'[w] = [t EXCEPT !.pc = "failing"]
  BY <1>0, <1>4
<1>6. ASSUME NEW n, worker'[w] = [t EXCEPT !.pc = "loop", !.locks = n]
      PROVE  /\ worker'[w].pc = "loop" /\ worker'[w].cursor = t.cursor
             /\ worker'[w].page = t.page /\ worker'[w].seq = t.seq
  BY <1>6 DEF TaskState
<1>7. ASSUME worker'[w] = [t EXCEPT !.pc = "failing"]
      PROVE  /\ worker'[w].pc = "failing" /\ worker'[w].cursor = t.cursor
             /\ worker'[w].page = t.page /\ worker'[w].seq = t.seq
  BY <1>7 DEF TaskState
<1> QED
  BY <1>4, <1>5, <1>6, <1>7

LEMMA PagesForgottenInductive ==
    ASSUME TypeOK, PagesForgotten, [Next]_vars
    PROVE  PagesForgotten'
<1>1. ASSUME NEW w \in Worker, TaskStep(w) PROVE PagesForgotten'
  <2>1. ASSUME NEW v \in Worker, v # w, worker'[v].pc \notin InRun PROVE worker'[v].page = NoPage
    BY <1>1, <2>1, OwnTaskOnly DEF PagesForgotten
  <2>2. ASSUME worker'[w].pc \notin InRun PROVE worker'[w].page = NoPage
    <3>0. worker \in [Worker -> TaskState] /\ worker[w] \in TaskState
      BY DEF TypeOK
    <3>1. ASSUME NEW pc, Step(w, pc), worker[w].pc \notin InRun PROVE worker'[w].page = NoPage
      BY <3>0, <3>1 DEF Step, TaskState, PagesForgotten
    <3>2. ASSUME NEW pc, NEW r, Leave(w, pc, r) PROVE worker'[w].page = NoPage
      BY <3>0, <3>2 DEF Leave, Idle
    <3>3. ASSUME EndTask(w) PROVE worker'[w].page = NoPage
      BY <3>0, <3>3 DEF EndTask, Idle
    <3>4. ASSUME NEW m \in broker, Receive(w, m) PROVE worker'[w].page = NoPage
      <4>1. \/ worker' = worker
            \/ \E pc \in {"received", "claimed"} :
                  worker' = [worker EXCEPT ![w] =
                      [Idle EXCEPT !.pc = pc, !.key = m.key, !.seq = m.seq]]
        BY <3>4, Zenon DEF Receive
      <4>2. worker[w].pc = "idle"
        BY <3>4 DEF Receive
      <4> QED
        BY <3>0, <4>1, <4>2 DEF Idle, InRun, PagesForgotten
    <3>5. CASE ClaimRefused(w) \/ Defer(w) \/ Report(w) \/ BlockDispatch(w)
      BY <3>3, <3>5 DEF ClaimRefused, Defer, Report, BlockDispatch
    <3>6. CASE \/ Claim(w) \/ RejectPreflight(w) \/ RefuseAcquire(w) \/ FindQueuedRun(w)
               \/ FailQueuedRun(w)
      BY <3>1, <3>6 DEF Claim, RejectPreflight, RefuseAcquire, FindQueuedRun, FailQueuedRun, InRun
    <3>7. CASE \/ AnswerExisting(w) \/ YieldForCredential(w) \/ CommitAndYield(w)
               \/ CommitLastPage(w) \/ ErrorNotOwner(w) \/ FailRun(w)
      BY <3>2, <3>7 DEF AnswerExisting, YieldForCredential, CommitAndYield, Yielded,
                        CommitLastPage, ErrorNotOwner, FailRun
    <3>8. CASE LoopStep(w)
      <4>1. ASSUME NEW pc \in InRun, Step(w, pc) PROVE FALSE
        BY <2>2, <4>1, StepContinues
      <4>2. CASE Renew(w) \/ RenewForCommit(w)
        BY <4>1, <4>2 DEF Renew, RenewForCommit, InRun
      <4>3. CASE Fetch(w)
        BY <2>2, <3>0, <4>1, <4>3 DEF Fetch, TaskState, InRun
      <4>4. CASE Acquire(w) \/ CommitPage(w) \/ CommitFails(w)
        BY <2>2, <3>0, <4>4 DEF Acquire, CommitPage, CommitFails, TaskState, InRun
      <4>5. CASE Retry(w) \/ GiveUp(w)
        BY <2>2, <4>5, Reread DEF InRun
      <4> QED
        BY <3>8, <4>2, <4>3, <4>4, <4>5 DEF LoopStep
    <3> QED
      BY <1>1, <3>4, <3>5, <3>6, <3>7, <3>8 DEF TaskStep, LoopStep
  <2> QED
    BY <2>1, <2>2 DEF PagesForgotten
<1>2. ASSUME SchedulerStep \/ OperatorStep \/ EnvironmentStep \/ UNCHANGED vars PROVE PagesForgotten'
  <2>1. worker' = worker \/ \E w \in Worker : worker' = [worker EXCEPT ![w] = Idle]
    BY <1>2 DEF SchedulerStep, OperatorStep, EnvironmentStep, vars, ReconcileDue, DispatchDue,
         RecoverUnstarted, RecoverOrphan, Publish, PublishFails, UnsentRunDeleted, ResumeSubmit, RecoverRunning,
         EnqueueManual, Toggle, DisableConfig, LeaseExpires, Crash, PublisherCrash, LoseMessage
  <2> QED
    BY <2>1 DEF TypeOK, PagesForgotten, Idle
<1> QED
  BY <1>1, <1>2 DEF Next

\* The lock becomes a run's own only when a worker takes the lease for it.
LEMMA OwnerTakes ==
    ASSUME TypeOK, [Next]_vars, NEW k \in Key, job'.owner = k
    PROVE  job.owner = k \/ \E w \in Worker : Acquire(w) /\ worker[w].key = k
<1>1. \A st : Released(st).owner = NoKey
  BY DEF Released, TypeOK, JobState
<1>2. job' # Released("idle") /\ job' # Released("failed")
  BY <1>1, SyncAssumption DEF Key
<1>3. ASSUME NEW w \in Worker, TaskStep(w) PROVE job' = job \/ Acquire(w)
  <2>1. CASE \/ YieldForCredential(w) \/ CommitAndYield(w) \/ CommitLastPage(w) \/ FailRun(w)
    BY <1>2, <2>1 DEF YieldForCredential, CommitAndYield, Yielded, CommitLastPage, FailRun
  <2>2. CASE AnswerExisting(w)
    BY <1>2, <2>2 DEF AnswerExisting, SeenJob
  <2> QED
    BY <1>3, <2>1, <2>2
       DEF TaskStep, Receive, Claim, ClaimRefused, Defer, RejectPreflight,
           RefuseAcquire, Renew, Fetch, RenewForCommit, CommitPage, CommitFails, ErrorNotOwner,
           Retry, GiveUp, Report, FindQueuedRun, FailQueuedRun, BlockDispatch, RunUnchanged
<1>4. ASSUME NEW w \in Worker, Acquire(w) PROVE worker[w].key = k
  BY <1>4, TaskTyped DEF Acquire, TypeOK, JobState
<1>5. ASSUME SchedulerStep \/ OperatorStep \/ EnvironmentStep \/ UNCHANGED vars
      PROVE  job'.owner = job.owner
  <2>1. \/ job' = job
        \/ RecoverRunning
        \/ (\E on \in BOOLEAN : Toggle(on)) \/ DisableConfig \/ LeaseExpires
    BY <1>5 DEF SchedulerStep, OperatorStep, EnvironmentStep, vars, ReconcileDue, DispatchDue,
         RecoverUnstarted, RecoverOrphan, Publish, PublishFails, UnsentRunDeleted, ResumeSubmit, EnqueueManual,
         Crash, PublisherCrash, LoseMessage
  <2> QED
    BY <1>2, <2>1 DEF RecoverRunning, Toggle, DisableConfig, LeaseExpires, TypeOK, JobState
<1> QED
  BY <1>3, <1>4, <1>5 DEF Next

\* Only the three page transactions move the cursor.
LEMMA CursorMoves ==
    ASSUME [Next]_vars
    PROVE  \/ cursor' = cursor
           \/ \E w \in Worker :
                 /\ worker[w].pc = "commit"
                 /\ CommitPage(w) \/ CommitAndYield(w) \/ CommitLastPage(w)
<1>1. ASSUME NEW w \in Worker, TaskStep(w)
      PROVE  \/ cursor' = cursor
             \/ CommitPage(w) \/ CommitAndYield(w) \/ CommitLastPage(w)
  <2>1. CASE YieldForCredential(w)
    BY <2>1 DEF YieldForCredential
  <2> QED
    BY <1>1, <2>1
       DEF TaskStep, Receive, Claim, ClaimRefused, Defer, RejectPreflight, AnswerExisting,
           Acquire, RefuseAcquire, Renew, Fetch, RenewForCommit, CommitFails, ErrorNotOwner,
           Retry, GiveUp, FailRun, Report, FindQueuedRun, FailQueuedRun, BlockDispatch,
           RunUnchanged
<1>2. ASSUME NEW w \in Worker, CommitPage(w) \/ CommitAndYield(w) \/ CommitLastPage(w)
      PROVE  worker[w].pc = "commit"
  BY <1>2 DEF CommitPage, CommitAndYield, CommitLastPage
<1>3. ASSUME SchedulerStep \/ OperatorStep \/ EnvironmentStep \/ UNCHANGED vars
      PROVE  cursor' = cursor
  BY <1>3 DEF SchedulerStep, ReconcileDue, DispatchDue, RecoverUnstarted, RecoverOrphan, Publish,
       PublishFails, UnsentRunDeleted, ResumeSubmit, RecoverRunning, OperatorStep, Toggle, DisableConfig,
       EnqueueManual, EnvironmentStep, LeaseExpires, Crash, PublisherCrash, LoseMessage, vars
<1> QED
  BY <1>1, <1>2, <1>3 DEF Next


\* A task that is counting pages after a step has taken that step itself, or did so before.
LEMMA CountingOn ==
    ASSUME TypeOK, [Next]_vars, NEW v \in Worker, worker'[v].pc \in Counting
    PROVE  LoopStep(v) \/ worker'[v] = worker[v]
<1>1. ASSUME NEW w \in Worker, TaskStep(w) PROVE LoopStep(v) \/ worker'[v] = worker[v]
  BY <1>1, OwnTaskOnly, InRunByLoopStep DEF Counting
<1>2. ASSUME SchedulerStep \/ OperatorStep \/ EnvironmentStep \/ UNCHANGED vars
      PROVE  worker'[v] = worker[v]
  <2>1. worker' = worker \/ \E w \in Worker : worker' = [worker EXCEPT ![w] = Idle]
    BY <1>2 DEF SchedulerStep, OperatorStep, EnvironmentStep, vars, ReconcileDue, DispatchDue,
         RecoverUnstarted, RecoverOrphan, Publish, PublishFails, UnsentRunDeleted, ResumeSubmit, RecoverRunning,
         EnqueueManual, Toggle, DisableConfig, LeaseExpires, Crash, PublisherCrash, LoseMessage
  <2> QED
    BY <2>1 DEF TypeOK, Counting, InRun, Idle
<1> QED
  BY <1>1, <1>2 DEF Next

\* The task that takes a loop step knows the cursor afterwards.
LEMMA LoopKnowsCursor ==
    ASSUME TypeOK, PagesForgotten, CursorKnown, NEW w \in Worker, LoopStep(w),
           worker'[w].pc \in Counting, job'.owner = worker'[w].key
    PROVE  /\ worker'[w].cursor = cursor'
           /\ worker'[w].pc \in {"fetched", "commit"} => worker'[w].page = cursor'
           /\ worker'[w].pc = "loop" => worker'[w].page \in {NoPage, cursor'}
<1>0. /\ worker \in [Worker -> TaskState]
      /\ worker[w] \in TaskState
      /\ worker'[w].key = worker[w].key
  BY LoopTask DEF TypeOK
<1>1. CASE Acquire(w)
  <2>1. worker[w].page = NoPage
    BY <1>1 DEF Acquire, PagesForgotten, InRun
  <2> QED
    BY <1>0, <1>1, <2>1 DEF Acquire, TaskState
<1>2. ASSUME job' = job, cursor' = cursor, worker[w].pc \in Counting
      PROVE  /\ worker[w].cursor = cursor
             /\ worker[w].pc \in {"fetched", "commit"} => worker[w].page = cursor
             /\ worker[w].pc = "loop" => worker[w].page \in {NoPage, cursor}
  BY <1>0, <1>2 DEF CursorKnown
<1>3. ASSUME NEW pc, Step(w, pc)
      PROVE  worker'[w].pc = pc /\ worker'[w].cursor = worker[w].cursor /\ worker'[w].page = worker[w].page
  BY <1>0, <1>3 DEF Step, TaskState
<1>4. CASE Renew(w)
  BY <1>2, <1>3, <1>4 DEF Renew, RunUnchanged, Counting, InRun
<1>5. CASE Fetch(w)
  <2>1. job' = job /\ cursor' = cursor /\ worker[w].pc = "fetch"
    BY <1>5 DEF Fetch, RunUnchanged
  <2>2. worker' = [worker EXCEPT ![w].pc = "fetched", ![w].page = worker[w].cursor]
    BY <1>3, <1>5 DEF Fetch, Counting
  <2> QED
    BY <1>0, <1>2, <2>1, <2>2 DEF TaskState, Counting, InRun
<1>6. CASE RenewForCommit(w)
  BY <1>2, <1>3, <1>6 DEF RenewForCommit, RunUnchanged, Counting, InRun
<1>7. CASE CommitPage(w)
  BY <1>0, <1>7 DEF CommitPage, NextCursor, TaskState
<1>8. CASE CommitFails(w)
  BY <1>8, LoopTask DEF Counting
<1>9. CASE Retry(w) \/ GiveUp(w)
  BY <1>9, Reread DEF Retry, GiveUp, RunUnchanged
<1> QED
  BY <1>1, <1>4, <1>5, <1>6, <1>7, <1>8, <1>9 DEF LoopStep

\* Any other task keeps what it knows: while the lock stays with its run, nobody else
\* commits a page.
LEMMA OthersKnowCursor ==
    ASSUME TypeOK, LeaseInv, LeaseInv', CursorKnown, [Next]_vars,
           NEW v \in Worker, worker'[v].pc \in Counting, job'.owner = worker'[v].key,
           worker'[v] = worker[v]
    PROVE  /\ worker'[v].cursor = cursor'
           /\ worker'[v].pc \in {"fetched", "commit"} => worker'[v].page = cursor'
           /\ worker'[v].pc = "loop" => worker'[v].page \in {NoPage, cursor'}
<1>0. worker \in [Worker -> TaskState] /\ worker[v].pc \in InRun /\ worker[v].key \in Key
  BY TaskTyped DEF TypeOK, Counting, InRun
<1>1. ASSUME NEW u \in Worker, Acquire(u), worker[u].key = worker[v].key PROVE FALSE
  <2>1. worker'[u].pc = "loop" /\ worker'[u].key = worker[u].key /\ worker[u].pc = "claimed"
    <3>1. worker[u] \in TaskState
      BY DEF TypeOK
    <3>2. worker'[u].key = worker[u].key
      BY <1>1, LoopTask DEF LoopStep
    <3> QED
      BY <1>0, <1>1, <3>1, <3>2 DEF Acquire, TaskState
  <2>2. u = v
    BY <1>0, <1>1, <2>1 DEF LeaseInv, OneTaskPerRun, InRun
  <2> QED
    BY <1>0, <2>1, <2>2 DEF InRun
<1>2. job.owner = worker[v].key
  BY <1>0, <1>1, OwnerTakes
<1>3. ASSUME NEW u \in Worker, worker[u].pc = "commit",
             CommitPage(u) \/ CommitAndYield(u) \/ CommitLastPage(u)
      PROVE  FALSE
  <2>1. u = v
    BY <1>0, <1>2, <1>3, OnlyWriter DEF Unchecked
  <2>2. worker'[u].pc # "commit"
    BY <1>0, <1>3, LeaveContinues
       DEF CommitPage, CommitAndYield, Yielded, CommitLastPage, TaskState, InRun
  <2> QED
    BY <1>3, <2>1, <2>2
<1>4. cursor' = cursor
  BY <1>3, CursorMoves
<1> QED
  BY <1>2, <1>4 DEF CursorKnown

LEMMA CursorKnownInductive ==
    ASSUME TypeOK, LeaseInv, LeaseInv', PagesForgotten, CursorKnown, [Next]_vars
    PROVE  CursorKnown'
<1> SUFFICES ASSUME NEW v \in Worker, worker'[v].pc \in Counting, job'.owner = worker'[v].key
             PROVE  /\ worker'[v].cursor = cursor'
                    /\ worker'[v].pc \in {"fetched", "commit"} => worker'[v].page = cursor'
                    /\ worker'[v].pc = "loop" => worker'[v].page \in {NoPage, cursor'}
  BY DEF CursorKnown
<1> QED
  BY CountingOn, LoopKnowsCursor, OthersKnowCursor

\* Provided no worker sleeps through its lease between its last look at it and its
\* commit, the cursor moves page by page or back to the start: no page is skipped, and
\* a worker that was replaced never moves it back.
THEOREM PagesKeepOrder ==
    ASSUME "slow_commit" \notin Mishaps
    PROVE  Spec => PagesInOrder
<1>1. Init => PagesForgotten /\ CursorKnown
  BY DEF Init, PagesForgotten, CursorKnown, Idle, Counting, InRun
<1>2. TypeOK /\ LeaseInv /\ LeaseInv' /\ (PagesForgotten /\ CursorKnown) /\ [Next]_vars
      => (PagesForgotten /\ CursorKnown)'
  BY PagesForgottenInductive, CursorKnownInductive
<1>3. TypeOK /\ LeaseInv /\ CursorKnown /\ [Next]_vars => [cursor' \in {cursor, cursor + 1, 0}]_vars
  <2> SUFFICES ASSUME TypeOK, LeaseInv, CursorKnown, [Next]_vars
               PROVE  cursor' \in {cursor, cursor + 1, 0}
    OBVIOUS
  <2>1. ASSUME NEW w \in Worker, worker[w].pc = "commit",
               CommitPage(w) \/ CommitAndYield(w) \/ CommitLastPage(w)
        PROVE  cursor' \in {cursor + 1, 0}
    <3>1. worker[w].page = cursor
      BY <2>1 DEF LeaseInv, WriterHoldsLease, Unchecked, CursorKnown, Counting, InRun
    <3> QED
      BY <2>1, <3>1 DEF CommitPage, CommitAndYield, CommitLastPage, NextCursor
  <2> QED
    BY <2>1, CursorMoves
<1> QED
  BY <1>1, <1>2, <1>3, LeaseInvariant, PTL DEF Spec, PagesInOrder


-----------------------------------------------------------------------------
(***************************************************************************)
(* Ended occurrences.  A dispatch is closed behind the back of a worker    *)
(* only when nobody holds it: of the tasks that were given an occurrence   *)
(* at most one has claimed it (OneHolder), and while the dispatch waits to *)
(* be claimed that one only has its report left, and nobody else can claim *)
(* before the run is resumed (HeldApart).                                  *)
(***************************************************************************)
Holding == InRun \cup {"claimed", "fail", "failWrite", "block", "report"}

\* Worker w executes a task for occurrence d, and has claimed its dispatch.
Task(w, d) == worker[w].key = d /\ worker[w].pc # "idle"
Holds(w, d) == worker[w].key = d /\ worker[w].pc \in Holding

Unused(d) ==
    /\ ~dispatch[d].linked
    /\ \A w \in Worker : ~Task(w, d)
    /\ \A m \in broker : m.key # d

\* No task and no message is ahead of the run.
Before(d) ==
    /\ \A w \in Worker : Task(w, d) => worker[w].seq <= runs[d].seq
    /\ \A m \in broker : m.key = d => m.seq <= runs[d].seq

OneHolder(d) == \A v, w \in Worker : Holds(v, d) /\ Holds(w, d) => v = w

\* Nobody was given the slice the run waits for.
Awaited(d) ==
    /\ dispatch[d].linked
    /\ \A w \in Worker : Task(w, d) /\ worker[w].pc = "received" => worker[w].seq # runs[d].seq
    /\ \A m \in broker : m.key = d => m.seq # runs[d].seq

HeldApart(d) ==
    dispatch[d].status = "queued" =>
        \A w \in Worker : Holds(w, d) => worker[w].pc = "report" /\ Awaited(d)

NotYetSent(d) ==
    /\ dispatch[d].status = "none" => d \notin unsent
    /\ dispatch[d].status = "none" \/ d \in unsent => Unused(d)

RunLinked(d) == runs[d].status # "absent" => dispatch[d].linked

ClaimInv(d) == NotYetSent(d) /\ RunLinked(d) /\ Before(d) /\ OneHolder(d) /\ HeldApart(d)

FreshRuns == \A k \in Key : runs[k].status = "absent" => runs[k].seq = 0

\* A task reports a state its run has.
StateReported == \A w \in Worker : worker[w].pc = "report" => worker[w].result # "none"

ClaimsInv == FreshRuns /\ StateReported /\ \A d \in Occurrence : ClaimInv(d)

LEMMA FreshRunsInductive ==
    ASSUME TypeOK, FreshRuns, [Next]_vars
    PROVE  FreshRuns'
<1> SUFFICES ASSUME NEW k \in Key, runs'[k].status = "absent" PROVE runs'[k].seq = 0
  BY DEF FreshRuns
<1> QED
  BY RunMoves DEF FreshRuns, RunStep, RunKept, RunEnds, RunFresh, RunYields, RunStarts, SameSlices

\* The slice of an occurrence's run changes only when its own worker yields.
LEMMA TaskSeq ==
    ASSUME TypeOK, FreshRuns, NEW w \in Worker, TaskStep(w), NEW d \in Occurrence
    PROVE  IF worker[w].key = d /\ (YieldForCredential(w) \/ CommitAndYield(w))
           THEN runs'[d].seq = runs[d].seq + 1
           ELSE runs'[d].seq = runs[d].seq
<1>0. d \in Key
  BY DEF Key
<1>1. CASE QuietRuns /\ ~YieldForCredential(w) /\ ~CommitAndYield(w)
  BY <1>0, <1>1 DEF QuietRuns, RunKept, RunEnds, RunFresh, SameSlices, FreshRuns
<1>2. CASE Acquire(w)
  <2>1. runs'[d].seq = runs[d].seq
    BY <1>0, <1>2, AcquiredRun DEF RunStarts, RunKept, RunEnds, SameSlices, FreshRuns
  <2> QED
    BY <1>2, <2>1 DEF Acquire, YieldForCredential, CommitAndYield
<1>3. CASE YieldForCredential(w) \/ CommitAndYield(w)
  <2>1. IF d = worker[w].key THEN RunYields(d) ELSE RunKept(d)
    <3>1. CASE YieldForCredential(w)
      <4>1. worker[w].pc # "idle" /\ Yielded(w, runs[worker[w].key])
        BY <3>1 DEF YieldForCredential
      <4> QED
        BY <1>0, <4>1, TaskTyped, YieldedRun
    <3>2. CASE CommitAndYield(w)
      <4>1. worker[w].pc # "idle" /\ Yielded(w, SavedRun(w))
        BY <3>2 DEF CommitAndYield
      <4>2. /\ SavedRun(w).seq = runs[worker[w].key].seq
            /\ SavedRun(w).started = runs[worker[w].key].started
        BY <4>1, TaskTyped DEF SavedRun, RunState
      <4> QED
        BY <1>0, <4>1, <4>2, SavedRunTyped, YieldedRun
    <3> QED
      BY <1>3, <3>1, <3>2
  <2> QED
    BY <1>3, <2>1 DEF RunYields, RunKept, SameSlices
<1> QED
  BY <1>1, <1>2, <1>3, TaskRunsQuiet

\* A task keeps its occurrence and its slice until it ends, and has claimed its
\* dispatch from its first step on.
LEMMA TaskMoves ==
    ASSUME TypeOK, NEW w \in Worker, TaskStep(w), worker[w].pc # "idle"
    PROVE  \/ worker'[w].pc = "idle"
           \/ /\ worker'[w].key = worker[w].key /\ worker'[w].seq = worker[w].seq
              /\ worker'[w].pc \in Holding
              /\ worker[w].pc \notin {"report", "block"}
              /\ worker[w].pc = "received" => Claim(w)
              /\ worker'[w].pc = "report" => worker'[w].result # "none"
<1> DEFINE Moves ==
      /\ worker'[w].key = worker[w].key /\ worker'[w].seq = worker[w].seq
      /\ worker'[w].pc \in Holding
      /\ worker'[w].pc = "report" => worker'[w].result # "none"
<1>0. worker \in [Worker -> TaskState] /\ worker[w] \in TaskState
  BY DEF TypeOK
<1>1. ASSUME EndTask(w) PROVE worker'[w].pc = "idle"
  BY <1>0, <1>1 DEF EndTask, Idle
<1>2. ASSUME NEW pc \in Holding \ {"report"}, Step(w, pc) PROVE Moves
  BY <1>0, <1>2 DEF Step, TaskState
<1>3. ASSUME NEW pc \in Holding, NEW r, pc = "report" => r # "none", Leave(w, pc, r) PROVE Moves
  <2>1. worker'[w] = [Idle EXCEPT !.pc = pc, !.key = worker[w].key, !.seq = worker[w].seq,
                                  !.result = r]
    BY <1>0, <1>3 DEF Leave
  <2> QED
    BY <1>3, <2>1 DEF Idle
<1>4. CASE ClaimRefused(w) \/ Defer(w) \/ Report(w) \/ BlockDispatch(w)
  BY <1>1, <1>4 DEF ClaimRefused, Defer, Report, BlockDispatch
<1>5. CASE Claim(w)
  <2>1. Moves /\ worker[w].pc = "received"
    BY <1>2, <1>5 DEF Claim, Holding
  <2> QED
    BY <1>5, <2>1
<1>6. CASE RejectPreflight(w) \/ RefuseAcquire(w) \/ FindQueuedRun(w) \/ FailQueuedRun(w)
  <2>1. Moves
    BY <1>2, <1>6 DEF RejectPreflight, RefuseAcquire, FindQueuedRun, FailQueuedRun, Holding
  <2> QED
    BY <1>6, <2>1 DEF RejectPreflight, RefuseAcquire, FindQueuedRun, FailQueuedRun
<1>7. CASE \/ AnswerExisting(w) \/ YieldForCredential(w) \/ CommitAndYield(w)
           \/ CommitLastPage(w) \/ ErrorNotOwner(w) \/ FailRun(w)
  <2>1. CASE AnswerExisting(w)
    <3>1. SeenRuns[worker[w].key].status # "none"
      <4>1. SeenRuns[worker[w].key] \in RunState
        BY <2>1, TaskTyped, SeenTyped DEF AnswerExisting
      <4> QED
        BY <4>1 DEF RunState
    <3>2. Moves
      BY <1>3, <2>1, <3>1 DEF AnswerExisting, Holding
    <3> QED
      BY <2>1, <3>2 DEF AnswerExisting
  <2>2. CASE \/ YieldForCredential(w) \/ CommitAndYield(w) \/ CommitLastPage(w)
             \/ ErrorNotOwner(w) \/ FailRun(w)
    <3>1. Moves
      BY <1>3, <2>2 DEF YieldForCredential, CommitAndYield, Yielded, CommitLastPage,
                        ErrorNotOwner, FailRun, Holding
    <3> QED
      BY <2>2, <3>1 DEF YieldForCredential, CommitAndYield, CommitLastPage, ErrorNotOwner, FailRun
  <2> QED
    BY <1>7, <2>1, <2>2
<1>8. CASE LoopStep(w)
  <2>1. worker'[w].key = worker[w].key
    BY <1>8, LoopTask
  <2>2. worker'[w].pc \in InRun /\ worker'[w].seq = worker[w].seq
    <3>1. ASSUME NEW pc \in InRun, Step(w, pc)
          PROVE  worker'[w].pc \in InRun /\ worker'[w].seq = worker[w].seq
      BY <1>0, <3>1 DEF Step, TaskState
    <3>2. CASE Renew(w) \/ RenewForCommit(w)
      BY <3>1, <3>2 DEF Renew, RenewForCommit, InRun
    <3>3. CASE Fetch(w)
      <4>1. CASE worker' = [worker EXCEPT ![w].pc = "fetched", ![w].page = worker[w].cursor]
        BY <1>0, <4>1 DEF TaskState, InRun
      <4> QED
        BY <3>1, <3>3, <4>1 DEF Fetch, InRun
    <3>4. CASE Acquire(w)
      BY <1>0, <3>4 DEF Acquire, TaskState, InRun
    <3>5. CASE CommitPage(w)
      BY <1>0, <3>5 DEF CommitPage, TaskState, InRun
    <3>6. CASE CommitFails(w)
      BY <1>0, <3>6 DEF CommitFails, TaskState, InRun
    <3>7. CASE Retry(w) \/ GiveUp(w)
      BY <3>7, Reread DEF InRun
    <3> QED
      BY <1>8, <3>2, <3>3, <3>4, <3>5, <3>6, <3>7 DEF LoopStep
  <2>3. worker[w].pc \in InRun \cup {"claimed"}
    BY <1>8 DEF LoopStep, Acquire, Renew, Fetch, RenewForCommit, CommitPage, CommitFails, Retry,
                GiveUp, InRun
  <2> QED
    BY <2>1, <2>2, <2>3 DEF Holding, InRun
<1>9. ASSUME NEW m \in broker, Receive(w, m) PROVE FALSE
  BY <1>9 DEF Receive
<1> QED
  BY <1>4, <1>5, <1>6, <1>7, <1>8, <1>9 DEF TaskStep, LoopStep


\* A step that neither submits, delivers, claims nor puts back the occurrence d: tasks
\* and messages of it may only disappear.
QuietFor(d) ==
    /\ dispatch'[d].linked = dispatch[d].linked
    /\ \/ dispatch'[d].status = dispatch[d].status
       \/ dispatch[d].status # "none" /\ dispatch'[d].status \notin {"none", "queued"}
    /\ d \in unsent' => d \in unsent
    /\ runs'[d].seq = runs[d].seq
    /\ \A m \in broker' : m.key = d => m \in broker
    /\ \A w \in Worker : worker'[w].key = d /\ worker'[w].pc # "idle" => worker'[w] = worker[w]

Claims(d) == NotYetSent(d) /\ Before(d) /\ OneHolder(d) /\ HeldApart(d)

LEMMA QuietClaims ==
    ASSUME NEW d \in Occurrence, Claims(d), QuietFor(d)
    PROVE  Claims(d)'
<1> USE DEF Claims, QuietFor
<1>1. ASSUME Unused(d) PROVE Unused(d)'
  BY <1>1 DEF Unused, Task
<1>2. NotYetSent(d)'
  BY <1>1 DEF NotYetSent
<1>3. Before(d)'
  BY DEF Before, Task
<1>4. ASSUME NEW w \in Worker, Holds(w, d)' PROVE Holds(w, d) /\ worker'[w] = worker[w]
  BY <1>4 DEF Holds, Holding, InRun
<1>5. OneHolder(d)'
  BY <1>4 DEF OneHolder
<1>6. ASSUME Awaited(d) PROVE Awaited(d)'
  BY <1>6 DEF Awaited, Task
<1>7. HeldApart(d)'
  BY <1>4, <1>6 DEF HeldApart
<1> QED
  BY <1>2, <1>3, <1>5, <1>7

LEMMA QuietSeq ==
    ASSUME QuietRuns, FreshRuns, NEW d \in Occurrence
    PROVE  runs'[d].seq = runs[d].seq
BY DEF QuietRuns, FreshRuns, RunKept, RunEnds, RunFresh, SameSlices, Key

\* Reconciling closes a dispatch or leaves it alone.
LEMMA ReconciledRow ==
    ASSUME TypeOK, NEW d \in Occurrence
    PROVE  /\ Reconciled[d].linked = dispatch[d].linked
           /\ \/ Reconciled[d].status = dispatch[d].status
              \/ dispatch[d].status = "running" /\ Reconciled[d].status \in {"success", "failed"}
<1>1. dispatch[d] \in DispatchState /\ d \in Key
  BY DEF TypeOK, Key
<1> QED
  BY <1>1 DEF Reconciled, DispatchState

\* The steps that are not a worker's own are quiet, but for the submissions.
LEMMA OtherQuietFor ==
    ASSUME TypeOK, FreshRuns, NEW d \in Occurrence,
           SchedulerStep \/ OperatorStep \/ EnvironmentStep \/ UNCHANGED vars
    PROVE  \/ QuietFor(d)
           \/ DispatchDue(d)
           \/ Publish(d) \/ PublishFails(d) \/ PublisherCrash(d) \/ ResumeSubmit(d)
<1>0. /\ runs'[d].seq = runs[d].seq
      /\ worker \in [Worker -> TaskState]
      /\ dispatch \in [Occurrence -> DispatchState] /\ dispatch[d] \in DispatchState
  BY OtherRunsQuiet, QuietSeq DEF TypeOK
<1>1. ASSUME NEW e \in Occurrence, e # d, DispatchDue(e) PROVE QuietFor(d)
  <2>1. dispatch'[d] = Reconciled[d]
    <3>1. Reconciled \in [Occurrence -> DispatchState]
      BY ReconciledTyped
    <3>2. PICK st : dispatch' = [Reconciled EXCEPT ![e].status = st]
      BY <1>1 DEF DispatchDue
    <3> QED
      BY <1>1, <3>1, <3>2
  <2>2. d \in unsent' => d \in unsent
    BY <1>1 DEF DispatchDue
  <2> QED
    BY <1>0, <1>1, <2>1, <2>2, ReconciledRow DEF DispatchDue, QuietFor
<1>2. ASSUME ReconcileDue PROVE QuietFor(d)
  BY <1>0, <1>2, ReconciledRow DEF ReconcileDue, QuietFor
<1>3. ASSUME NEW e \in Occurrence, RecoverUnstarted(e) \/ RecoverOrphan(e) PROVE QuietFor(d)
  <2>1. PICK st \in {"failed", "dispatch_failed"} : dispatch' = [dispatch EXCEPT ![e].status = st]
    BY <1>3 DEF RecoverUnstarted, RecoverOrphan
  <2>2. dispatch[e].status # "none"
    BY <1>3 DEF RecoverUnstarted, RecoverOrphan
  <2>3. broker' = broker /\ unsent' = unsent /\ worker' = worker
    BY <1>3 DEF RecoverUnstarted, RecoverOrphan
  <2> QED
    BY <1>0, <2>1, <2>2, <2>3 DEF QuietFor, DispatchState
<1>4. ASSUME NEW k \in Key, k # d, Publish(k) \/ PublishFails(k) \/ PublisherCrash(k) \/ ResumeSubmit(k)
      PROVE  QuietFor(d)
  <2>1. dispatch'[d] = dispatch[d]
    BY <1>0, <1>4 DEF Publish, PublishFails, UnsentRunDeleted, PublisherCrash, ResumeSubmit
  <2>2. worker' = worker /\ unsent' \subseteq unsent
    BY <1>4 DEF Publish, PublishFails, UnsentRunDeleted, PublisherCrash, ResumeSubmit
  <2>3. \A m \in broker' : m.key = d => m \in broker
    BY <1>4 DEF Publish, PublishFails, UnsentRunDeleted, PublisherCrash, ResumeSubmit, FirstMessage
  <2> QED
    BY <1>0, <2>1, <2>2, <2>3 DEF QuietFor
<1>5. ASSUME RecoverRunning PROVE QuietFor(d)
  <2>1. dispatch'[d] = IF dispatch[d].status = "running"
                       THEN [dispatch[d] EXCEPT !.status = "failed"] ELSE dispatch[d]
    BY <1>5 DEF RecoverRunning
  <2>2. worker' = worker /\ unsent' = unsent /\ broker' = broker
    BY <1>5 DEF RecoverRunning
  <2> QED
    BY <1>0, <2>1, <2>2 DEF QuietFor, DispatchState
<1>6. ASSUME OperatorStep \/ UNCHANGED vars \/ LeaseExpires PROVE QuietFor(d)
  <2>1. dispatch' = dispatch /\ worker' = worker /\ broker' = broker
    BY <1>6 DEF OperatorStep, Toggle, DisableConfig, EnqueueManual, LeaseExpires, vars
  <2>2. d \in unsent' => d \in unsent
    BY <1>6, SyncAssumption DEF OperatorStep, Toggle, DisableConfig, EnqueueManual, LeaseExpires, vars
  <2> QED
    BY <1>0, <2>1, <2>2 DEF QuietFor
<1>7. ASSUME NEW w \in Worker, Crash(w) PROVE QuietFor(d)
  BY <1>0, <1>7 DEF Crash, QuietFor, Idle
<1>8. ASSUME NEW m \in broker, LoseMessage(m) PROVE QuietFor(d)
  BY <1>0, <1>8 DEF LoseMessage, QuietFor
<1> QED
  BY <1>1, <1>2, <1>3, <1>4, <1>5, <1>6, <1>7, <1>8 DEF SchedulerStep, EnvironmentStep


\* A submission puts a message of d into the broker, for a task that is not held.
LEMMA SubmittedClaims ==
    ASSUME TypeOK, NEW d \in Occurrence, Claims(d), RunLinked(d), "late_report" \notin Mishaps,
           runs'[d].seq = runs[d].seq,
           \/ DispatchDue(d)
           \/ Publish(d) \/ PublishFails(d) \/ PublisherCrash(d) \/ ResumeSubmit(d)
    PROVE  Claims(d)'
<1> USE DEF Claims
<1>0. /\ dispatch \in [Occurrence -> DispatchState] /\ dispatch[d] \in DispatchState
      /\ runs[d].seq \in Nat
  BY DEF TypeOK, RunState, Key
<1>1. CASE DispatchDue(d)
  <2>1. PICK st \in {"queued", "skipped", "blocked"} :
            dispatch' = [Reconciled EXCEPT ![d].status = st]
    BY <1>1 DEF DispatchDue
  <2>2. dispatch'[d].status = st /\ dispatch'[d].linked = dispatch[d].linked
    <3>1. Reconciled \in [Occurrence -> DispatchState] /\ Reconciled[d] \in DispatchState
      BY ReconciledTyped
    <3>2. dispatch'[d] = [Reconciled[d] EXCEPT !.status = st]
      BY <2>1, <3>1
    <3> QED
      BY <3>1, <3>2, ReconciledRow DEF DispatchState
  <2>3. Unused(d) /\ worker' = worker /\ broker' = broker
    BY <1>1 DEF DispatchDue, NotYetSent
  <2>4. Unused(d)'
    BY <2>2, <2>3 DEF Unused, Task
  <2>5. \A w \in Worker : ~Holds(w, d)'
    BY <2>4 DEF Unused, Task, Holds, Holding, InRun
  <2> QED
    BY <2>2, <2>4, <2>5 DEF NotYetSent, Before, OneHolder, HeldApart, Unused
<1>2. CASE Publish(d) \/ PublishFails(d) \/ PublisherCrash(d)
  <2>1. /\ d \in unsent /\ d \notin unsent' /\ worker' = worker
        /\ \A m \in broker' : m \in broker \/ m = FirstMessage(d)
    BY <1>2 DEF Publish, PublishFails, UnsentRunDeleted, PublisherCrash
  <2>2. dispatch[d].status # "none" /\ Unused(d)
    BY <2>1 DEF NotYetSent
  <2>3. dispatch'[d].status # "none"
    BY <1>0, <1>2, <2>2 DEF Publish, PublishFails, UnsentRunDeleted, PublisherCrash, DispatchState
  <2>4. \A w \in Worker : ~Task(w, d)' /\ ~Holds(w, d)'
    BY <2>1, <2>2 DEF Unused, Task, Holds, Holding, InRun
  <2>5. \A m \in broker' : m.key = d => m.seq <= runs'[d].seq
    <3>1. FirstMessage(d).seq = 0
      BY DEF FirstMessage
    <3> QED
      BY <1>0, <2>1, <2>2, <3>1 DEF Unused
  <2> QED
    BY <2>1, <2>3, <2>4, <2>5 DEF NotYetSent, Before, OneHolder, HeldApart
<1>3. CASE ResumeSubmit(d)
  <2>1. /\ dispatch' = dispatch /\ worker' = worker /\ unsent' = unsent
        /\ runs[d].status = "queued"
        /\ \A m \in broker' : m \in broker \/ m = [key |-> d, seq |-> runs[d].seq]
        /\ \A w \in Worker : ~(worker[w].key = d /\ worker[w].pc = "report")
    BY <1>3 DEF ResumeSubmit
  <2>2. dispatch[d].status # "none" /\ d \notin unsent
    BY <2>1 DEF NotYetSent, Unused, RunLinked
  <2>3. Before(d)'
    BY <1>0, <2>1 DEF Before, Task
  <2>4. OneHolder(d)'
    BY <2>1 DEF OneHolder, Holds
  <2>5. HeldApart(d)'
    BY <2>1 DEF HeldApart, Holds
  <2> QED
    BY <2>1, <2>2, <2>3, <2>4, <2>5 DEF NotYetSent
<1> QED
  BY <1>1, <1>2, <1>3

\* A task never sends a message of its own.
LEMMA TaskSends ==
    ASSUME NEW w \in Worker, TaskStep(w)
    PROVE  unsent' = unsent /\ \A m \in broker' : m \in broker
<1>1. CASE YieldForCredential(w) \/ CommitAndYield(w)
  BY <1>1 DEF YieldForCredential, CommitAndYield, Yielded
<1>2. CASE \E m \in broker : Receive(w, m)
  BY <1>2 DEF Receive
<1> QED
  BY <1>1, <1>2
     DEF TaskStep, Claim, ClaimRefused, Defer, RejectPreflight, AnswerExisting, Acquire,
         RefuseAcquire, Renew, Fetch, RenewForCommit, CommitPage, CommitLastPage, CommitFails,
         ErrorNotOwner, Retry, GiveUp, FailRun, Report, FindQueuedRun, FailQueuedRun,
         BlockDispatch, RunUnchanged, EndTask

\* The one delivery that matters to d: a message of its own, to a task that must still
\* claim the dispatch.
LEMMA ReceivedClaims ==
    ASSUME TypeOK, FreshRuns, NEW d \in Occurrence, Claims(d), NEW w \in Worker, NEW m \in broker,
           Receive(w, m)
    PROVE  Claims(d)'
<1> USE DEF Claims
<1>0. /\ worker \in [Worker -> TaskState] /\ m.key \in Key /\ d \in Key
      /\ dispatch' = dispatch /\ unsent' = unsent /\ runs' = runs
      /\ worker[w].pc = "idle"
  BY DEF TypeOK, Message, Receive, Key
<1>1. \A n \in broker' : n \in broker
  BY DEF Receive
<1>2. PICK pc \in {"received", "claimed"} : pc = IF m.key \in Occurrence THEN "received" ELSE "claimed"
  OBVIOUS
<1>3. \/ worker' = worker
      \/ worker' = [worker EXCEPT ![w] = [Idle EXCEPT !.pc = pc, !.key = m.key, !.seq = m.seq]]
  BY <1>2 DEF Receive
<1>4. \/ worker' = worker
      \/ /\ worker'[w].pc = pc /\ worker'[w].key = m.key /\ worker'[w].seq = m.seq
         /\ \A v \in Worker \ {w} : worker'[v] = worker[v]
  BY <1>0, <1>3 DEF Idle
<1>5. CASE worker' = worker
  BY <1>0, <1>1, <1>5, QuietClaims DEF QuietFor
<1>6. CASE /\ worker'[w].pc = pc /\ worker'[w].key = m.key /\ worker'[w].seq = m.seq
           /\ \A v \in Worker \ {w} : worker'[v] = worker[v]
  <2>1. CASE m.key # d
    BY <1>0, <1>1, <1>6, <2>1, QuietClaims DEF QuietFor
  <2>2. CASE m.key = d
    <3>0. worker'[w].pc = "received"
      BY <1>2, <1>6, <2>2
    <3>1. NotYetSent(d)'
      BY <1>0, <2>2 DEF NotYetSent, Unused
    <3>2. Before(d)'
      BY <1>0, <1>1, <1>6, <2>2 DEF Before, Task
    <3>3. \A v \in Worker : Holds(v, d)' => Holds(v, d) /\ worker'[v] = worker[v]
      BY <1>6, <3>0 DEF Holds, Holding, InRun
    <3>4. OneHolder(d)'
      BY <3>3 DEF OneHolder
    <3>5. ASSUME Awaited(d) PROVE Awaited(d)'
      BY <1>0, <1>1, <1>6, <2>2, <3>5 DEF Awaited, Task
    <3>6. HeldApart(d)'
      BY <1>0, <3>3, <3>5 DEF HeldApart
    <3> QED
      BY <3>1, <3>2, <3>4, <3>6
  <2> QED
    BY <2>1, <2>2
<1> QED
  BY <1>4, <1>5, <1>6


\* A task touches no dispatch but that of its own occurrence.
LEMMA DispatchMoves ==
    ASSUME TypeOK, NEW w \in Worker, TaskStep(w), worker[w].pc # "idle", NEW d \in Occurrence
    PROVE  /\ dispatch[d].linked => dispatch'[d].linked
           /\ \/ dispatch'[d].linked = dispatch[d].linked
              \/ worker[w].key = d
           /\ \/ dispatch'[d].status = dispatch[d].status
              \/ /\ worker[w].key = d
                 /\ \/ Claim(w) /\ dispatch'[d].status = "running"
                    \/ ClaimRefused(w) /\ dispatch[d].status = "queued" /\ dispatch'[d].status = "skipped"
                    \/ Defer(w) /\ dispatch'[d].status = "queued"
                    \/ YieldForCredential(w) \/ CommitAndYield(w)
                    \/ Report(w) /\ dispatch'[d].status = worker[w].result
                    \/ BlockDispatch(w) /\ dispatch'[d].status = "blocked"
<1>0. dispatch \in [Occurrence -> DispatchState] /\ dispatch[d] \in DispatchState
  BY DEF TypeOK
<1>1. ASSUME NEW st, dispatch' = dispatch \/ dispatch' = [dispatch EXCEPT ![worker[w].key].status = st]
      PROVE  /\ dispatch'[d].linked = dispatch[d].linked
             /\ \/ dispatch'[d].status = dispatch[d].status
                \/ dispatch'[d].status = st /\ worker[w].key = d
  BY <1>0, <1>1 DEF DispatchState
<1>2. CASE Claim(w)
  <2>1. dispatch' = [dispatch EXCEPT ![worker[w].key].status = "running"]
    BY <1>2 DEF Claim
  <2> QED
    BY <1>1, <1>2, <2>1
<1>3. CASE ClaimRefused(w)
  <2>1. \/ dispatch' = dispatch
        \/ /\ dispatch' = [dispatch EXCEPT ![worker[w].key].status = "skipped"]
           /\ dispatch[worker[w].key].status = "queued"
    BY <1>3 DEF ClaimRefused, Claimable
  <2> QED
    BY <1>1, <1>3, <2>1
<1>4. CASE Defer(w)
  <2>1. \/ dispatch' = dispatch
        \/ dispatch' = [dispatch EXCEPT ![worker[w].key].status = "queued",
                                        ![worker[w].key].linked = TRUE]
    BY <1>4 DEF Defer
  <2> QED
    BY <1>0, <1>4, <2>1 DEF DispatchState
<1>5. CASE Acquire(w)
  <2>1. \/ dispatch' = dispatch
        \/ dispatch' = [dispatch EXCEPT ![worker[w].key].linked = TRUE]
    BY <1>5 DEF Acquire
  <2> QED
    BY <1>0, <2>1 DEF DispatchState
<1>6. CASE YieldForCredential(w) \/ CommitAndYield(w)
  <2>1. \/ dispatch' = dispatch
        \/ dispatch' = [dispatch EXCEPT ![worker[w].key].status = "queued"]
    BY <1>6 DEF YieldForCredential, CommitAndYield, Yielded
  <2> QED
    BY <1>1, <1>6, <2>1
<1>7. CASE Report(w)
  <2>1. \/ dispatch' = dispatch
        \/ dispatch' = [dispatch EXCEPT ![worker[w].key].status = worker[w].result]
    BY <1>7 DEF Report
  <2> QED
    BY <1>1, <1>7, <2>1
<1>8. CASE BlockDispatch(w)
  <2>1. \/ dispatch' = dispatch
        \/ dispatch' = [dispatch EXCEPT ![worker[w].key].status = "blocked"]
    BY <1>8 DEF BlockDispatch
  <2> QED
    BY <1>1, <1>8, <2>1
<1>9. CASE dispatch' = dispatch
  BY <1>9
<1>10. \/ Claim(w) \/ ClaimRefused(w) \/ Defer(w) \/ Acquire(w) \/ YieldForCredential(w)
       \/ CommitAndYield(w) \/ Report(w) \/ BlockDispatch(w) \/ dispatch' = dispatch
  BY DEF TaskStep, Receive, RejectPreflight, AnswerExisting, RefuseAcquire, Renew, Fetch,
         RenewForCommit, CommitPage, CommitLastPage, CommitFails, ErrorNotOwner, Retry, GiveUp,
         FailRun, FindQueuedRun, FailQueuedRun, RunUnchanged
<1> QED
  BY <1>2, <1>3, <1>4, <1>5, <1>6, <1>7, <1>8, <1>9, <1>10

LEMMA YieldedDispatch ==
    ASSUME TypeOK, NEW w \in Worker, YieldForCredential(w) \/ CommitAndYield(w),
           NEW d \in Occurrence, worker[w].key = d
    PROVE  dispatch'[d].status = "queued"
<1>1. dispatch' = [dispatch EXCEPT ![d].status = "queued"] /\ dispatch[d] \in DispatchState
  BY DEF YieldForCredential, CommitAndYield, Yielded, TypeOK
<1> QED
  BY <1>1 DEF TypeOK, DispatchState

LEMMA ClaimedDispatch ==
    ASSUME TypeOK, NEW w \in Worker, Claim(w), NEW d \in Occurrence, worker[w].key = d
    PROVE  dispatch'[d].status = "running"
<1>1. dispatch' = [dispatch EXCEPT ![d].status = "running"] /\ dispatch[d] \in DispatchState
  BY DEF Claim, TypeOK
<1> QED
  BY <1>1 DEF TypeOK, DispatchState

\* Nobody claims a dispatch that is held.
LEMMA ClaimsUnheld ==
    ASSUME NEW w \in Worker, Claim(w), NEW d \in Occurrence, worker[w].key = d,
           HeldApart(d), NEW v \in Worker
    PROVE  ~Holds(v, d)
BY DEF Claim, Claimable, HeldApart, Awaited, Task

\* The steps of the task that was given d.
LEMMA OwnClaims ==
    ASSUME TypeOK, TakenInv, FreshRuns, StateReported, NEW d \in Occurrence, Claims(d), RunLinked(d),
           NEW w \in Worker, TaskStep(w), worker[w].pc # "idle", worker[w].key = d
    PROVE  Claims(d)'
<1> USE DEF Claims
<1>0. /\ worker[w] \in TaskState /\ worker[w].pc \in Phase
      /\ runs[d].seq \in Nat /\ runs'[d].seq \in Nat /\ runs'[d].seq >= runs[d].seq
      /\ \A v \in Worker : worker[v].seq \in Nat
      /\ \A m \in broker : m.seq \in Nat
  <2>1. d \in Key
    BY DEF Key
  <2> QED
    BY <2>1, TaskSeq DEF TypeOK, TaskState, RunState, Message
<1>1. \A v \in Worker \ {w} : worker'[v] = worker[v]
  BY OwnTaskOnly
<1>2. /\ dispatch[d].status # "none" /\ d \notin unsent
      /\ unsent' = unsent /\ \A m \in broker' : m \in broker
  BY TaskSends DEF NotYetSent, Unused, Task
<1>3. dispatch'[d].status # "none"
  <2>1. CASE YieldForCredential(w) \/ CommitAndYield(w)
    BY <2>1, YieldedDispatch
  <2>2. Report(w) => worker[w].result # "none"
    BY DEF Report, StateReported
  <2>3. \/ dispatch'[d].status = dispatch[d].status
        \/ dispatch'[d].status \in {"running", "skipped", "queued", "blocked"}
        \/ YieldForCredential(w) \/ CommitAndYield(w)
        \/ Report(w) /\ dispatch'[d].status = worker[w].result
    BY DispatchMoves
  <2> QED
    BY <1>2, <2>1, <2>2, <2>3
<1>4. NotYetSent(d)'
  BY <1>2, <1>3 DEF NotYetSent
<1>5. \A v \in Worker : Task(v, d)' => Task(v, d) /\ worker'[v].seq = worker[v].seq
  BY <1>1, TaskMoves DEF Task
<1>6. Before(d)'
  BY <1>0, <1>2, <1>5 DEF Before
<1>7. ASSUME ~Claim(w), NEW v \in Worker, Holds(v, d)' PROVE Holds(v, d)
  <2>1. CASE v = w
    BY <1>0, <1>7, <2>1, TaskMoves DEF Holds, Holding, InRun, Phase
  <2> QED
    BY <1>1, <1>7, <2>1 DEF Holds
<1>8. OneHolder(d)'
  <2>1. CASE Claim(w)
    <3>1. ASSUME NEW v \in Worker, Holds(v, d)' PROVE v = w
      BY <1>1, <2>1, <3>1, ClaimsUnheld DEF Holds
    <3> QED
      BY <3>1 DEF OneHolder
  <2>2. CASE ~Claim(w)
    BY <1>7, <2>2 DEF OneHolder
  <2> QED
    BY <2>1, <2>2
<1>9. HeldApart(d)'
  <2> SUFFICES ASSUME dispatch'[d].status = "queued", NEW v \in Worker, Holds(v, d)'
               PROVE  worker'[v].pc = "report" /\ Awaited(d)'
    BY DEF HeldApart
  <2>1. CASE YieldForCredential(w) \/ CommitAndYield(w)
    <3>1. /\ worker[w].pc \in InRun /\ worker'[w].pc = "report" /\ ~Claim(w)
          /\ Holds(w, d) /\ runs'[d].seq = runs[d].seq + 1
      BY <2>1, LeaveContinues, TaskSeq
         DEF YieldForCredential, CommitAndYield, Yielded, Claim, InRun, Holds, Holding
    <3>2. v = w
      BY <1>7, <3>1 DEF OneHolder
    <3>3. dispatch'[d].linked
      <4>1. runs[d].status # "absent"
        BY <3>1 DEF TakenInv, TaskRunTaken
      <4> QED
        BY <4>1, DispatchMoves DEF RunLinked
    <3>4. \A u \in Worker : Task(u, d)' => worker'[u].seq <= runs[d].seq
      BY <1>5 DEF Before
    <3>5. Awaited(d)'
      <4>1. \A n \in Nat : n <= runs[d].seq => n # runs'[d].seq
        BY <1>0, <3>1
      <4>2. \A u \in Worker : Task(u, d)' => worker'[u].seq # runs'[d].seq
        BY <1>0, <1>5, <3>4, <4>1
      <4>3. \A m \in broker' : m.key = d => m.seq # runs'[d].seq
        BY <1>0, <1>2, <4>1 DEF Before
      <4> QED
        BY <3>3, <4>2, <4>3 DEF Awaited
    <3> QED
      BY <3>1, <3>2, <3>5
  <2>2. CASE Defer(w) \/ Report(w)
    <3>1. worker'[w].pc = "idle" /\ Holds(w, d) /\ ~Claim(w)
      BY <2>2 DEF Defer, Report, EndTask, Idle, Holds, Holding, Claim, TypeOK
    <3> QED
      BY <1>7, <3>1 DEF OneHolder, Holds, Holding, InRun
  <2>3. CASE /\ dispatch[d].status = "queued" /\ ~Claim(w)
             /\ ~YieldForCredential(w) /\ ~CommitAndYield(w)
    <3>1. Holds(v, d) /\ worker[v].pc = "report" /\ Awaited(d)
      BY <1>7, <2>3 DEF HeldApart
    <3>2. v # w
      BY <3>1, TaskMoves DEF Holds, Holding, InRun
    <3>3. runs'[d].seq = runs[d].seq /\ dispatch'[d].linked
      BY <2>3, <3>1, TaskSeq, DispatchMoves DEF Awaited
    <3>4. ASSUME NEW u \in Worker, Task(u, d)', worker'[u].pc = "received"
          PROVE  worker[u].pc = "received"
      BY <1>1, <3>4, TaskMoves DEF Task, Holding, InRun
    <3>5. Awaited(d)'
      BY <1>2, <1>5, <3>1, <3>3, <3>4 DEF Awaited
    <3> QED
      BY <1>1, <3>1, <3>2, <3>5
  <2>4. CASE Claim(w)
    BY <2>4, ClaimedDispatch
  <2> QED
    BY <2>1, <2>2, <2>3, <2>4, DispatchMoves
<1> QED
  BY <1>4, <1>6, <1>8, <1>9

LEMMA TaskClaims ==
    ASSUME TypeOK, TakenInv, FreshRuns, StateReported, NEW d \in Occurrence, Claims(d), RunLinked(d),
           NEW w \in Worker, TaskStep(w)
    PROVE  Claims(d)'
<1>1. CASE worker[w].pc = "idle"
  <2>1. \E m \in broker : Receive(w, m)
    BY <1>1 DEF TaskStep, Claim, ClaimRefused, Defer, RejectPreflight, AnswerExisting, Acquire,
         RefuseAcquire, Renew, Fetch, RenewForCommit, YieldForCredential, CommitPage,
         CommitAndYield, CommitLastPage, CommitFails, ErrorNotOwner, Retry, GiveUp, FailRun,
         Report, FindQueuedRun, FailQueuedRun, BlockDispatch
  <2> QED
    BY <2>1, ReceivedClaims
<1>2. CASE worker[w].pc # "idle" /\ worker[w].key # d
  <2>1. QuietFor(d)
    <3>1. \A v \in Worker : worker'[v].key = d /\ worker'[v].pc # "idle" => worker'[v] = worker[v]
      BY <1>2, OwnTaskOnly, TaskMoves
    <3>2. runs'[d].seq = runs[d].seq
      BY <1>2, TaskSeq
    <3> QED
      BY <1>2, <3>1, <3>2, TaskSends, DispatchMoves DEF QuietFor
  <2> QED
    BY <2>1, QuietClaims
<1> QED
  BY <1>1, <1>2, OwnClaims


LEMMA StateReportedInductive ==
    ASSUME TypeOK, StateReported, [Next]_vars
    PROVE  StateReported'
<1>1. ASSUME NEW w \in Worker, TaskStep(w) PROVE StateReported'
  <2>1. ASSUME NEW v \in Worker, v # w, worker'[v].pc = "report" PROVE worker'[v].result # "none"
    BY <1>1, <2>1, OwnTaskOnly DEF StateReported
  <2>2. ASSUME worker'[w].pc = "report" PROVE worker'[w].result # "none"
    <3>1. CASE worker[w].pc # "idle"
      BY <1>1, <2>2, <3>1, TaskMoves
    <3>2. CASE worker[w].pc = "idle"
      <4>1. PICK m \in broker : Receive(w, m)
        BY <1>1, <3>2 DEF TaskStep, Claim, ClaimRefused, Defer, RejectPreflight, AnswerExisting,
             Acquire, RefuseAcquire, Renew, Fetch, RenewForCommit, YieldForCredential, CommitPage,
             CommitAndYield, CommitLastPage, CommitFails, ErrorNotOwner, Retry, GiveUp, FailRun,
             Report, FindQueuedRun, FailQueuedRun, BlockDispatch
      <4>2. \/ worker' = worker
            \/ \E pc \in {"received", "claimed"} :
                  worker' = [worker EXCEPT ![w] =
                      [Idle EXCEPT !.pc = pc, !.key = m.key, !.seq = m.seq]]
        BY <4>1, Zenon DEF Receive
      <4> QED
        BY <2>2, <3>2, <4>2 DEF TypeOK, Idle
    <3> QED
      BY <3>1, <3>2
  <2> QED
    BY <2>1, <2>2 DEF StateReported
<1>2. ASSUME SchedulerStep \/ OperatorStep \/ EnvironmentStep \/ UNCHANGED vars
      PROVE  StateReported'
  <2>1. worker' = worker \/ \E w \in Worker : worker' = [worker EXCEPT ![w] = Idle]
    BY <1>2 DEF SchedulerStep, OperatorStep, EnvironmentStep, vars, ReconcileDue, DispatchDue,
         RecoverUnstarted, RecoverOrphan, Publish, PublishFails, UnsentRunDeleted, ResumeSubmit, RecoverRunning,
         EnqueueManual, Toggle, DisableConfig, LeaseExpires, Crash, PublisherCrash, LoseMessage
  <2> QED
    BY <2>1 DEF TypeOK, StateReported, Idle
<1> QED
  BY <1>1, <1>2 DEF Next

\* The run of an occurrence is created by the task that links it to the dispatch.
LEMMA RunCreated ==
    ASSUME TypeOK, TakenInv, [Next]_vars, NEW d \in Occurrence,
           runs[d].status = "absent", runs'[d].status # "absent"
    PROVE  \E w \in Worker : worker[w].key = d /\ (Defer(w) \/ Acquire(w))
<1>0. runs \in [Key -> RunState] /\ runs[d] \in RunState /\ d \in Key /\ d \notin Manual
  BY SyncAssumption DEF TypeOK, Key
<1>1. FailedRuns[d] = runs[d] /\ SeenRuns[d] = runs[d]
  BY <1>0 DEF FailedRuns, SeenRuns
<1>2. ASSUME NEW w \in Worker, TaskStep(w) PROVE worker[w].key = d /\ (Defer(w) \/ Acquire(w))
  <2>1. worker[w].pc \in InRun => worker[w].key # d
    BY DEF TakenInv, TaskRunTaken
  <2>2. CASE \/ YieldForCredential(w) \/ CommitAndYield(w) \/ CommitPage(w) \/ CommitLastPage(w)
             \/ Retry(w) \/ FailRun(w)
    <3>1. worker[w].key # d
      BY <2>1, <2>2 DEF YieldForCredential, CommitAndYield, CommitPage, CommitLastPage, Retry,
                        FailRun, InRun
    <3>2. \E r : runs' = [runs EXCEPT ![worker[w].key] = r]
      BY <2>2 DEF YieldForCredential, CommitAndYield, Yielded, CommitPage, CommitLastPage, Retry,
                  FailRun
    <3> QED
      BY <1>0, <3>1, <3>2
  <2>3. CASE FailQueuedRun(w)
    <3>1. \/ runs' = runs
          \/ /\ runs' = [runs EXCEPT ![worker[w].key].status = "failed"]
             /\ runs[worker[w].key].status # "absent"
      BY <2>3 DEF FailQueuedRun
    <3> QED
      BY <1>0, <3>1
  <2>4. CASE AnswerExisting(w)
    BY <1>1, <2>4 DEF AnswerExisting
  <2>5. CASE Defer(w)
    <3>1. \E r : runs' = [runs EXCEPT ![worker[w].key] = r]
      BY <2>5 DEF Defer
    <3> QED
      BY <1>0, <2>5, <3>1
  <2>6. CASE Acquire(w)
    <3>1. \E r : runs' = [SeenRuns EXCEPT ![worker[w].key] = r]
      BY <2>6 DEF Acquire
    <3> QED
      BY <1>0, <1>1, <2>6, <3>1, SeenTyped
  <2>7. CASE runs' = runs
    BY <2>7
  <2> QED
    BY <1>2, <2>2, <2>3, <2>4, <2>5, <2>6, <2>7
       DEF TaskStep, Receive, Claim, ClaimRefused, RejectPreflight, RefuseAcquire, Renew, Fetch,
           RenewForCommit, CommitFails, ErrorNotOwner, GiveUp, Report, FindQueuedRun,
           BlockDispatch, RunUnchanged
<1>3. ASSUME SchedulerStep \/ OperatorStep \/ EnvironmentStep \/ UNCHANGED vars PROVE FALSE
  <2>1. \/ runs' = runs \/ runs' = FailedRuns
        \/ \E k \in Manual : \E r : runs' = [runs EXCEPT ![k] = r]
    BY <1>3 DEF SchedulerStep, OperatorStep, EnvironmentStep, vars, ReconcileDue, DispatchDue,
         RecoverUnstarted, RecoverOrphan, Publish, PublishFails, UnsentRunDeleted, ResumeSubmit, RecoverRunning,
         EnqueueManual, Toggle, DisableConfig, LeaseExpires, Crash, PublisherCrash, LoseMessage
  <2> QED
    BY <1>0, <1>1, <2>1
<1> QED
  BY <1>2, <1>3 DEF Next

\* Nothing unlinks a dispatch.
LEMMA StaysLinked ==
    ASSUME TypeOK, FreshRuns, [Next]_vars, NEW d \in Occurrence, dispatch[d].linked
    PROVE  dispatch'[d].linked
<1>1. ASSUME NEW w \in Worker, TaskStep(w) PROVE dispatch'[d].linked
  <2>1. CASE worker[w].pc # "idle"
    BY <1>1, <2>1, DispatchMoves
  <2>2. CASE worker[w].pc = "idle"
    BY <1>1, <2>2 DEF TaskStep, Receive, Claim, ClaimRefused, Defer, RejectPreflight,
         AnswerExisting, Acquire, RefuseAcquire, Renew, Fetch, RenewForCommit,
         YieldForCredential, CommitPage, CommitAndYield, CommitLastPage, CommitFails,
         ErrorNotOwner, Retry, GiveUp, FailRun, Report, FindQueuedRun, FailQueuedRun,
         BlockDispatch
  <2> QED
    BY <2>1, <2>2
<1>2. ASSUME SchedulerStep \/ OperatorStep \/ EnvironmentStep \/ UNCHANGED vars
      PROVE  dispatch'[d].linked
  <2>0. dispatch \in [Occurrence -> DispatchState] /\ dispatch[d] \in DispatchState
    BY DEF TypeOK
  <2>1. CASE DispatchDue(d)
    <3>1. PICK st : dispatch' = [Reconciled EXCEPT ![d].status = st]
      BY <2>1 DEF DispatchDue
    <3>2. Reconciled \in [Occurrence -> DispatchState] /\ Reconciled[d] \in DispatchState
      BY ReconciledTyped
    <3>3. dispatch'[d] = [Reconciled[d] EXCEPT !.status = st]
      BY <3>1, <3>2
    <3> QED
      BY <3>2, <3>3, ReconciledRow DEF DispatchState
  <2>2. CASE Publish(d) \/ PublishFails(d) \/ PublisherCrash(d) \/ ResumeSubmit(d)
    BY <2>0, <2>2 DEF Publish, PublishFails, UnsentRunDeleted, PublisherCrash, ResumeSubmit, DispatchState
  <2> QED
    BY <1>2, <2>1, <2>2, OtherQuietFor DEF QuietFor
<1> QED
  BY <1>1, <1>2 DEF Next

LEMMA RunLinkedInductive ==
    ASSUME TypeOK, TakenInv, FreshRuns, [Next]_vars, NEW d \in Occurrence, RunLinked(d)
    PROVE  RunLinked(d)'
<1>1. ASSUME NEW w \in Worker, worker[w].key = d, Defer(w) \/ Acquire(w) PROVE dispatch'[d].linked
  <2>1. \/ dispatch' = [dispatch EXCEPT ![d].status = "queued", ![d].linked = TRUE]
        \/ dispatch' = [dispatch EXCEPT ![d].linked = TRUE]
    BY <1>1 DEF Defer, Acquire
  <2> QED
    BY <2>1 DEF TypeOK, DispatchState
<1> QED
  BY <1>1, RunCreated, StaysLinked DEF RunLinked

LEMMA ClaimsInvInductive ==
    ASSUME TypeOK, TakenInv, ClaimsInv, "late_report" \notin Mishaps, [Next]_vars
    PROVE  ClaimsInv'
<1> USE DEF ClaimsInv
<1>1. FreshRuns' /\ StateReported'
  BY FreshRunsInductive, StateReportedInductive
<1>2. ASSUME NEW d \in Occurrence PROVE ClaimInv(d)'
  <2>1. RunLinked(d) /\ Claims(d)
    BY DEF ClaimInv, Claims
  <2>2. RunLinked(d)'
    BY <2>1, RunLinkedInductive
  <2>3. Claims(d)'
    <3>1. ASSUME NEW w \in Worker, TaskStep(w) PROVE Claims(d)'
      BY <2>1, <3>1, TaskClaims
    <3>2. ASSUME SchedulerStep \/ OperatorStep \/ EnvironmentStep \/ UNCHANGED vars
          PROVE  Claims(d)'
      <4>1. runs'[d].seq = runs[d].seq
        BY <3>2, OtherRunsQuiet, QuietSeq
      <4> QED
        BY <2>1, <3>2, <4>1, OtherQuietFor, QuietClaims, SubmittedClaims
    <3> QED
      BY <3>1, <3>2 DEF Next
  <2> QED
    BY <2>2, <2>3 DEF ClaimInv, Claims
<1> QED
  BY <1>1, <1>2


\* The live lease is a run's own because it was before, or because a worker takes it.
LEMMA LeaseTakes ==
    ASSUME TypeOK, [Next]_vars, NEW k \in Key,
           job'.status = "running", job'.owner = k, job'.lease = "live"
    PROVE  job' = job \/ \E w \in Worker : Acquire(w) /\ worker[w].key = k
<1>1. \A st : Released(st).owner = NoKey
  BY DEF Released, TypeOK, JobState
<1>2. job' # Released("idle") /\ job' # Released("failed")
  BY <1>1, SyncAssumption DEF Key
<1>3. ASSUME NEW w \in Worker, TaskStep(w) PROVE job' = job \/ Acquire(w)
  <2>1. CASE \/ YieldForCredential(w) \/ CommitAndYield(w) \/ CommitLastPage(w) \/ FailRun(w)
    BY <1>2, <2>1 DEF YieldForCredential, CommitAndYield, Yielded, CommitLastPage, FailRun
  <2>2. CASE AnswerExisting(w)
    BY <1>2, <2>2 DEF AnswerExisting, SeenJob
  <2> QED
    BY <1>3, <2>1, <2>2
       DEF TaskStep, Receive, Claim, ClaimRefused, Defer, RejectPreflight,
           RefuseAcquire, Renew, Fetch, RenewForCommit, CommitPage, CommitFails, ErrorNotOwner,
           Retry, GiveUp, Report, FindQueuedRun, FailQueuedRun, BlockDispatch, RunUnchanged
<1>4. ASSUME NEW w \in Worker, Acquire(w) PROVE worker[w].key = k
  BY <1>4, TaskTyped DEF Acquire, TypeOK, JobState
<1>5. ASSUME SchedulerStep \/ OperatorStep \/ EnvironmentStep \/ UNCHANGED vars PROVE job' = job
  <2>1. \/ job' = job
        \/ RecoverRunning
        \/ (\E on \in BOOLEAN : Toggle(on)) \/ DisableConfig \/ LeaseExpires
    BY <1>5 DEF SchedulerStep, OperatorStep, EnvironmentStep, vars, ReconcileDue, DispatchDue,
         RecoverUnstarted, RecoverOrphan, Publish, PublishFails, UnsentRunDeleted, ResumeSubmit, EnqueueManual,
         Crash, PublisherCrash, LoseMessage
  <2> QED
    BY <1>2, <2>1 DEF RecoverRunning, Toggle, DisableConfig, LeaseExpires, TypeOK, JobState
<1> QED
  BY <1>3, <1>4, <1>5 DEF Next

\* While the lease is held, a dispatch is closed only by a task that was given it, or
\* because its submission failed.
LEMMA DispatchCloses ==
    ASSUME TypeOK, [Next]_vars, job.status = "running", job' = job, NEW d \in Occurrence,
           dispatch[d].status \notin Ended, dispatch'[d].status \in Ended
    PROVE  \/ PublishFails(d)
           \/ \E w \in Worker :
                 /\ worker[w].key = d
                 /\ \/ ClaimRefused(w) /\ dispatch[d].status = "queued"
                    \/ Report(w) \/ BlockDispatch(w)
<1>0. dispatch \in [Occurrence -> DispatchState] /\ dispatch[d] \in DispatchState
  BY DEF TypeOK
<1>1. ASSUME NEW w \in Worker, TaskStep(w)
      PROVE  /\ worker[w].key = d
             /\ \/ ClaimRefused(w) /\ dispatch[d].status = "queued"
                \/ Report(w) \/ BlockDispatch(w)
  <2>1. CASE worker[w].pc = "idle"
    <3>1. dispatch' = dispatch
      BY <1>1, <2>1 DEF TaskStep, Receive, Claim, ClaimRefused, Defer, RejectPreflight,
           AnswerExisting, Acquire, RefuseAcquire, Renew, Fetch, RenewForCommit,
           YieldForCredential, CommitPage, CommitAndYield, CommitLastPage, CommitFails,
           ErrorNotOwner, Retry, GiveUp, FailRun, Report, FindQueuedRun, FailQueuedRun,
           BlockDispatch
    <3> QED
      BY <3>1
  <2>2. CASE worker[w].pc # "idle"
    <3>1. \/ dispatch'[d].status = dispatch[d].status
          \/ /\ worker[w].key = d
             /\ \/ dispatch'[d].status \in {"running", "queued"}
                \/ ClaimRefused(w) /\ dispatch[d].status = "queued"
                \/ YieldForCredential(w) \/ CommitAndYield(w)
                \/ Report(w) \/ BlockDispatch(w)
      BY <1>1, <2>2, DispatchMoves
    <3> QED
      BY <3>1, YieldedDispatch DEF Ended
  <2> QED
    BY <2>1, <2>2
<1>2. ASSUME SchedulerStep \/ OperatorStep \/ EnvironmentStep \/ UNCHANGED vars
      PROVE  PublishFails(d)
  <2>1. ~ReconcileDue /\ \A e \in Occurrence : ~DispatchDue(e) /\ ~RecoverUnstarted(e) /\ ~RecoverOrphan(e)
    BY DEF ReconcileDue, DispatchDue, RecoverUnstarted, RecoverOrphan, Due, Busy
  <2>2. ~RecoverRunning
    BY DEF RecoverRunning, Released, TypeOK, JobState
  <2>3. ASSUME NEW k \in Key, k # d \/ ~PublishFails(k), Publish(k) \/ PublishFails(k)
        PROVE  dispatch'[d].status = dispatch[d].status
    BY <1>0, <2>3 DEF Publish, PublishFails, UnsentRunDeleted, DispatchState
  <2>4. \/ dispatch' = dispatch
        \/ \E k \in Key : Publish(k) \/ PublishFails(k)
    BY <1>2, <2>1, <2>2 DEF SchedulerStep, OperatorStep, EnvironmentStep, vars, ResumeSubmit,
         EnqueueManual, Toggle, DisableConfig, LeaseExpires, Crash, PublisherCrash, LoseMessage
  <2> QED
    BY <2>3, <2>4
<1> QED
  BY <1>1, <1>2 DEF Next

LEMMA EndedNotExecutingInductive ==
    ASSUME TypeOK, ClaimsInv, EndedNotExecuting, [Next]_vars
    PROVE  EndedNotExecuting'
<1> SUFFICES ASSUME NEW d \in Occurrence, dispatch'[d].status \in Ended,
                    NEW w \in Worker, worker'[w].key = d, worker'[w].pc \in InRun,
                    job'.status = "running", job'.owner = d, job'.lease = "live"
             PROVE  FALSE
  BY DEF EndedNotExecuting, OnRun, Owns
<1>0. d \in Key /\ worker \in [Worker -> TaskState] /\ ClaimInv(d)
  BY DEF Key, TypeOK, ClaimsInv
<1>1. ASSUME NEW u \in Worker, Acquire(u), worker[u].key = d PROVE FALSE
  <2>1. dispatch[d].status = "running" /\ dispatch' = [dispatch EXCEPT ![d].linked = TRUE]
    BY <1>1 DEF Acquire, Acquirable
  <2>2. dispatch'[d].status = "running"
    BY <2>1 DEF TypeOK, DispatchState
  <2> QED
    BY <2>2 DEF Ended
<1>2. job' = job
  BY <1>0, <1>1, LeaseTakes
<1>3. worker[w].key = d /\ worker[w].pc \in InRun
  <2>1. CASE Acquire(w)
    <3>1. worker'[w].key = worker[w].key
      BY <2>1, LoopTask DEF LoopStep
    <3> QED
      BY <1>1, <2>1, <3>1
  <2>2. CASE \E u \in Worker : u # w /\ Acquire(u)
    BY <1>0, <2>2 DEF Acquire
  <2>3. CASE \A u \in Worker : ~Acquire(u)
    <3>1. TasksContinue
      BY <2>3, TaskContinues, OtherContinues DEF Next
    <3> QED
      BY <3>1 DEF TasksContinue
  <2> QED
    BY <2>1, <2>2, <2>3
<1>4. dispatch[d].status \notin Ended
  BY <1>2, <1>3 DEF EndedNotExecuting, OnRun, Owns
<1>5. Holds(w, d) /\ Task(w, d) /\ worker[w].pc \notin {"report", "block"}
  BY <1>3 DEF Holds, Task, Holding, InRun
<1>6. d \notin unsent
  BY <1>0, <1>5 DEF ClaimInv, NotYetSent, Unused
<1>7. dispatch[d].status # "queued"
  BY <1>0, <1>5 DEF ClaimInv, HeldApart
<1>8. ASSUME NEW v \in Worker, worker[v].key = d, Report(v) \/ BlockDispatch(v) PROVE FALSE
  <2>1. Holds(v, d) /\ worker[v].pc \in {"report", "block"}
    BY <1>8 DEF Report, BlockDispatch, Holds, Holding
  <2> QED
    BY <1>0, <1>5, <2>1 DEF ClaimInv, OneHolder
<1> QED
  BY <1>2, <1>4, <1>6, <1>7, <1>8, DispatchCloses DEF PublishFails, UnsentRunDeleted

\* Provided no worker is held up between its yield and its report for longer than the
\* minute before the run may be resumed, an occurrence that was given up, skipped or
\* closed is executed by no worker that holds the lease: not after a crash, a recovery, a
\* lost or repeated message, nor in the windows of the other mishaps.
THEOREM EndedNotExecutingHolds ==
    ASSUME "late_report" \notin Mishaps
    PROVE  Spec => []EndedNotExecuting
<1>1. Init => ClaimsInv /\ EndedNotExecuting
  <2> SUFFICES ASSUME Init PROVE ClaimsInv /\ EndedNotExecuting
    OBVIOUS
  <2>1. FreshRuns /\ StateReported
    BY NewRunFresh DEF Init, FreshRuns, StateReported, Idle
  <2>2. ASSUME NEW d \in Occurrence PROVE ClaimInv(d) /\ dispatch[d].status = "none"
    BY NewRunFresh DEF Init, ClaimInv, NotYetSent, Unused, RunLinked, Before, OneHolder,
         HeldApart, Task, Holds, Holding, InRun, Idle, Key
  <2> QED
    BY <2>1, <2>2 DEF ClaimsInv, EndedNotExecuting, Ended
<1>2. TypeOK /\ TakenInv /\ (ClaimsInv /\ EndedNotExecuting) /\ [Next]_vars
      => (ClaimsInv /\ EndedNotExecuting)'
  BY ClaimsInvInductive, EndedNotExecutingInductive
<1> QED
  BY <1>1, <1>2, TypeCorrect, TakenInvariant, PTL DEF Spec

=============================================================================
