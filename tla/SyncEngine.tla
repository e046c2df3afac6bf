----------------------------- MODULE SyncEngine -----------------------------
(***************************************************************************)
(* The synchronisation engine (backend/apps/integrations): one SyncJob,    *)
(* its runs and planned occurrences, the worker tasks that execute them    *)
(* page by page under a database lease, the broker between them, and the   *)
(* scheduler ticks that dispatch, resume and recover.                      *)
(*                                                                         *)
(* A database transaction, or a single statement outside of one, is one    *)
(* action.  A worker keeps what it read (message, cursor, counters, page)  *)
(* in its own record between two of them.  Jobs meet only in the capacity  *)
(* admission, which is a refusal here, so one job is enough.  Time is      *)
(* abstract: a lease is live until LeaseExpires, a waiting time is any     *)
(* time, a pause window or a missed slot is a choice.                      *)
(***************************************************************************)
EXTENDS Naturals, FiniteSets

CONSTANTS
    Worker,         \* worker processes of the sync queue
    Occurrence,     \* planned occurrences (rows of SyncScheduleDispatch)
    Manual,         \* idempotency keys of manual requests
    NoKey,          \* the empty lock token
    MaxPages,       \* the provider's result has at most this many pages
    MaxSlices,      \* bound on the times a run yields
    MaxWaits,       \* bound on the times a run is deferred before it starts
    MaxRetries,     \* SyncJob.max_retry_count
    MaxLockRetries, \* database_page_retries allowed per page (3 in the code)
    MaxFaults,      \* bound on crashes and lost messages
    MaxSwitches,    \* bound on the operator's enabling and disabling
    OrphanRecovery, \* SYNC_ORPHAN_QUEUED_DISPATCH_RECOVERY_ENABLED
    Mishaps         \* the windows of the code a worker may be caught in

(***************************************************************************)
(* "slow_commit": a worker is held up between its last look at the lease   *)
(* and its commit until the lease runs out.  "late_report": it is held up  *)
(* between a yield and the update of the dispatch for longer than the      *)
(* minute before the run may be resumed.  "killed_claim": it is killed     *)
(* between claiming the dispatch of a run that waits and either taking the *)
(* lease or failing that run.                                              *)
(* "killed_publisher": the scheduler or the web process is killed between  *)
(* its commit and the submission to the broker.                            *)
(***************************************************************************)
ASSUME SyncAssumption ==
    /\ Occurrence \cap Manual = {}
    /\ NoKey \notin Occurrence \cup Manual
    /\ MaxPages \in Nat \ {0}
    /\ MaxSlices \in Nat
    /\ MaxWaits \in Nat
    /\ MaxRetries \in Nat
    /\ MaxLockRetries \in Nat
    /\ MaxFaults \in Nat
    /\ MaxSwitches \in Nat
    /\ OrphanRecovery \in BOOLEAN
    /\ Mishaps \subseteq {"slow_commit", "late_report", "killed_claim", "killed_publisher"}

\* A run is identified by its idempotency key: scheduled:<job>:<occurrence> or the client's.
Key == Occurrence \cup Manual

NoPage == MaxPages

VARIABLES
    job,        \* SyncJob: status, is_enabled, lock_token (a key), its lease
    runs,       \* runs[k]: SyncRun with idempotency key k
    dispatch,   \* dispatch[d]: SyncScheduleDispatch; "none" before the slot is due
    cursor,     \* SyncCursor "default": the next page, 0 is the initial cursor
    written,    \* written[k]: pages that run k really committed
    broker,     \* messages queued or unacknowledged at the broker
    unsent,     \* keys committed to the database whose first message is not sent
    worker,     \* worker[w]: the task a worker executes
    faults, switches

vars == <<job, runs, dispatch, cursor, written, broker, unsent, worker, faults, switches>>

NoRun == [status |-> "absent", seq |-> 0, pending |-> FALSE, pages |-> 0,
          retries |-> 0, waits |-> 0, started |-> {}]

\* A new SyncRun row, before its status is set.
NewRun == [NoRun EXCEPT !.status = "queued"]

Idle == [pc |-> "idle", key |-> NoKey, seq |-> 0, cursor |-> 0, pages |-> 0,
         page |-> NoPage, locks |-> 0, result |-> "none"]

Message == [key : Key, seq : 0..MaxSlices]

FirstMessage(k) == [key |-> k, seq |-> 0]
MessageOf(w) == [key |-> worker[w].key, seq |-> worker[w].seq]

Ended == {"success", "failed", "blocked", "skipped", "dispatch_failed"}

InRun == {"loop", "fetch", "fetched", "commit", "error", "failing"}

\* The phases of a task that write without looking at the lease again.
Unchecked == {"commit", "failing"}

OnRun(k) == {w \in Worker : worker[w].key = k /\ worker[w].pc \in InRun}

ActiveRun(k) == runs[k].status \in {"queued", "running"}

\* _owns_lease, which is also the condition under which _renew_lease succeeds.
Owns(w) == job.status = "running" /\ job.owner = worker[w].key /\ job.lease = "live"

\* status RUNNING, or lock_expires_at > now.
Busy == job.status = "running" \/ job.lease = "live"

\* The job after its lock is given back.
Released(st) == [job EXCEPT !.status = st, !.owner = NoKey, !.lease = "none"]

-----------------------------------------------------------------------------

JobState == [status : {"idle", "running", "failed", "disabled"}, enabled : BOOLEAN,
             owner : Key \cup {NoKey}, lease : {"none", "live", "expired"}]

RunState == [status : {"absent", "queued", "running", "success", "failed"},
             seq : 0..MaxSlices, pending : BOOLEAN, pages : Nat,
             retries : 0..MaxRetries, waits : 0..MaxWaits, started : SUBSET (0..MaxSlices)]

DispatchState == [status : {"none", "queued", "running"} \cup Ended,
                  linked : BOOLEAN, enqueued : BOOLEAN]

Phase == {"idle", "received", "claimed", "fail", "failWrite", "block", "report"} \cup InRun

\* Only an idle worker has no run.
TaskState ==
    {task \in [pc : Phase, key : Key \cup {NoKey}, seq : 0..MaxSlices, cursor : Nat, pages : Nat,
               page : Nat, locks : 0..MaxLockRetries,
               result : {"none", "queued", "running", "success", "failed"}] :
        task.pc # "idle" => task.key \in Key}

TypeOK ==
    /\ job \in JobState
    /\ runs \in [Key -> RunState]
    /\ dispatch \in [Occurrence -> DispatchState]
    /\ cursor \in 0..MaxPages
    /\ written \in [Key -> Nat]
    /\ broker \subseteq Message
    /\ unsent \subseteq Key
    /\ worker \in [Worker -> TaskState]
    /\ faults \in 0..MaxFaults
    /\ switches \in 0..MaxSwitches

Init ==
    /\ job = [status |-> "idle", enabled |-> TRUE, owner |-> NoKey, lease |-> "none"]
    /\ runs = [k \in Key |-> NoRun]
    /\ dispatch = [d \in Occurrence |-> [status |-> "none", linked |-> FALSE, enqueued |-> FALSE]]
    /\ cursor = 0
    /\ written = [k \in Key |-> 0]
    /\ broker = {}
    /\ unsent = {}
    /\ worker = [w \in Worker |-> Idle]
    /\ faults = 0
    /\ switches = 0

\* The task of w returns and its message is acknowledged.
EndTask(w) ==
    /\ worker' = [worker EXCEPT ![w] = Idle]
    /\ broker' = broker \ {MessageOf(w)}

Step(w, pc) == worker' = [worker EXCEPT ![w].pc = pc]

\* The task has nothing left to do with pages; r is the run state it will report.
Leave(w, pc, r) ==
    worker' = [worker EXCEPT ![w] = [Idle EXCEPT
        !.pc = pc, !.key = worker[w].key, !.seq = worker[w].seq, !.result = r]]

-----------------------------------------------------------------------------
(* Requests: the scheduler's due slots and the operator's manual runs.     *)

\* Wrong: the dispatch of a run that ended without a report is left alone.
Reconciled_Open == dispatch

\* dispatch_due_jobs also closes dispatches whose run ended without a report.
Reconciled ==
    [d \in Occurrence |->
        IF dispatch[d].status = "running" /\ dispatch[d].linked
                /\ runs[d].status \in {"success", "failed"}
        THEN [dispatch[d] EXCEPT !.status = runs[d].status]
        ELSE dispatch[d]]

\* An enabled job that is due, not disabled and not running.
Due == job.enabled /\ job.status # "disabled" /\ ~Busy

\* A due slot that finds other work in the way, or no capacity, only reconciles.
ReconcileDue ==
    /\ Due
    /\ dispatch' = Reconciled
    /\ UNCHANGED <<job, runs, cursor, written, broker, unsent, worker, faults, switches>>

\* The slot becomes occurrence d: queued for submission, skipped as missed, or
\* blocked by its scope.
DispatchDue(d) ==
    /\ Due
    /\ dispatch[d].status = "none"
    /\ \A e \in Occurrence : Reconciled[e].status \notin {"queued", "running"}
    /\ \A k \in Key : ~ActiveRun(k)
    /\ \E st \in {"queued", "skipped", "blocked"} :
          /\ dispatch' = [Reconciled EXCEPT ![d].status = st]
          /\ unsent' = IF st = "queued" THEN unsent \cup {d} ELSE unsent
    /\ UNCHANGED <<job, runs, cursor, written, broker, worker, faults, switches>>

\* enqueue_sync_run: a known key is answered with its run, which changes nothing.
EnqueueManual(k) ==
    /\ Due
    /\ runs[k].status = "absent"
    /\ \A j \in Key : ~ActiveRun(j)
    /\ runs' = [runs EXCEPT ![k] = NewRun]
    /\ unsent' = unsent \cup {k}
    /\ UNCHANGED <<job, dispatch, cursor, written, broker, worker, faults, switches>>

Publish(k) ==
    /\ k \in unsent
    /\ unsent' = unsent \ {k}
    /\ broker' = broker \cup {FirstMessage(k)}
    /\ dispatch' = IF k \in Occurrence THEN [dispatch EXCEPT ![k].enqueued = TRUE] ELSE dispatch
    /\ UNCHANGED <<job, runs, cursor, written, worker, faults, switches>>

\* enqueue_sync_job: a manual run that is still queued is deleted, unless the raw
\* pages of an earlier slice protect it.
UnsentRunDeleted(k) ==
    IF k \in Manual /\ runs[k].status = "queued" /\ runs[k].pages = 0
    THEN [runs EXCEPT ![k] = NoRun] ELSE runs

\* The broker call raises; whether the message got through is unknown.  The
\* dispatch is closed, the run of a manual request deleted.
PublishFails(k) ==
    /\ k \in unsent
    /\ unsent' = unsent \ {k}
    /\ broker' \in {broker, broker \cup {FirstMessage(k)}}
    /\ dispatch' = IF k \in Occurrence /\ dispatch[k].status = "queued"
                   THEN [dispatch EXCEPT ![k].status = "dispatch_failed"] ELSE dispatch
    /\ runs' = UnsentRunDeleted(k)
    /\ UNCHANGED <<job, cursor, written, worker, faults, switches>>

\* resume_due_sync_runs: a pending continuation whose message is proven absent is
\* sent again, a minute after the yield at the earliest.
ResumeSubmit(k) ==
    /\ Due
    /\ runs[k].status = "queued" /\ runs[k].pending
    /\ [key |-> k, seq |-> runs[k].seq] \notin broker
    /\ "late_report" \notin Mishaps =>
          \A w \in Worker : ~(worker[w].key = k /\ worker[w].pc = "report")
    /\ broker' = broker \cup {[key |-> k, seq |-> runs[k].seq]}
    /\ UNCHANGED <<job, runs, dispatch, cursor, written, unsent, worker, faults, switches>>

-----------------------------------------------------------------------------
(* The task run_readonly_sync_job, up to the lease.                        *)

\* The broker delivers m, perhaps not for the first time.  A run that has moved
\* on since the message was sent is not executed.
Receive(w, m) ==
    /\ worker[w].pc = "idle"
    /\ m \in broker
    /\ IF runs[m.key].status = "absent"
             \/ (runs[m.key].status = "queued" /\ runs[m.key].seq = m.seq)
       THEN /\ worker' = [worker EXCEPT ![w] = [Idle EXCEPT
                  !.pc = IF m.key \in Occurrence THEN "received" ELSE "claimed",
                  !.key = m.key, !.seq = m.seq]]
            /\ UNCHANGED broker
       ELSE /\ broker' = broker \ {m}
            /\ UNCHANGED worker
    /\ UNCHANGED <<job, runs, dispatch, cursor, written, unsent, faults, switches>>

\* The dispatch is queued and, if it has a run, that run waits for this very slice.
Claimable(w) ==
    LET d == worker[w].key IN
    /\ dispatch[d].status = "queued"
    /\ dispatch[d].linked => runs[d].status = "queued" /\ runs[d].seq = worker[w].seq

Claim(w) ==
    /\ worker[w].pc = "received"
    /\ Claimable(w)
    /\ job.enabled
    /\ dispatch' = [dispatch EXCEPT ![worker[w].key].status = "running"]
    /\ Step(w, "claimed")
    /\ UNCHANGED <<job, runs, cursor, written, broker, unsent, faults, switches>>

\* A message that claims nothing.  A disabled job skips the occurrence, but keeps a
\* continuation for later; no plan can be paused while a dispatch is queued.
ClaimRefused(w) ==
    /\ worker[w].pc = "received"
    /\ ~(Claimable(w) /\ job.enabled)
    /\ LET d == worker[w].key
           kept == dispatch[d].linked /\ worker[w].seq > 0
       IN dispatch' = IF Claimable(w) /\ ~kept
                      THEN [dispatch EXCEPT ![d].status = "skipped"] ELSE dispatch
    /\ EndTask(w)
    /\ UNCHANGED <<job, runs, cursor, written, unsent, faults, switches>>

\* defer_queued_for_refresh: the credential is about to be renewed, so the run
\* is put back, or created to wait.
Defer(w) ==
    LET k == worker[w].key IN
    /\ worker[w].pc = "claimed"
    /\ job.enabled /\ job.status \notin {"running", "disabled"}
    /\ runs[k].status \in {"absent", "queued"}
    /\ runs[k].waits < MaxWaits
    /\ LET run == IF runs[k].status = "absent" THEN NewRun ELSE runs[k]
       IN runs' = [runs EXCEPT ![k] = [run EXCEPT !.pending = TRUE, !.waits = @ + 1]]
    /\ dispatch' = IF k \in Occurrence
                   THEN [dispatch EXCEPT ![k].status = "queued", ![k].linked = TRUE] ELSE dispatch
    /\ EndTask(w)
    /\ UNCHANGED <<job, cursor, written, unsent, faults, switches>>

\* validate_manual_sync_job refuses: authorization, capability, configuration.
RejectPreflight(w) ==
    /\ worker[w].pc = "claimed"
    /\ Step(w, "fail")
    /\ UNCHANGED <<job, runs, dispatch, cursor, written, broker, unsent, faults, switches>>

LeaseRanOut == job.status = "running" /\ job.lease = "expired"

\* Wrong: the job is freed and its runs are forgotten.
FailedRuns_Forgotten == runs

\* _recover_expired_lease fails every running run of the job and frees it.
FailedRuns ==
    [k \in Key |-> IF runs[k].status = "running"
                   THEN [runs[k] EXCEPT !.status = "failed"] ELSE runs[k]]

\* What the transaction of run_sync_job sees once it has recovered an expired lease.
SeenJob == IF LeaseRanOut THEN Released("failed") ELSE job

\* Wrong: a run that takes over an expired lease leaves the old one running.
SeenRuns_Kept == runs

SeenRuns == IF LeaseRanOut THEN FailedRuns ELSE runs

\* run_sync_job answers with a run it does not execute: it has ended or is being
\* executed, or waits for another slice than this message's.
Answered(w) ==
    LET k == worker[w].key IN
    /\ job.enabled /\ job.status # "disabled"
    /\ k \in Occurrence => dispatch[k].status = "running"
    /\ \/ SeenRuns[k].status \notin {"absent", "queued"}
       \/ SeenRuns[k].status = "queued" /\ SeenRuns[k].seq # worker[w].seq

\* Wrong: the slice of the message is not compared with the slice that waits.
Acquirable_AnySlice(w) ==
    LET k == worker[w].key IN
    /\ job.enabled /\ job.status # "disabled"
    /\ k \in Occurrence => dispatch[k].status = "running"
    /\ SeenRuns[k].status \in {"absent", "queued"}
    /\ \A j \in Key \ {k} : SeenRuns[j].status # "queued"
    /\ SeenJob.status \in {"idle", "failed"}

\* Wrong: the claimed dispatch is not looked at again.
Acquirable_Undispatched(w) ==
    LET k == worker[w].key IN
    /\ job.enabled /\ job.status # "disabled"
    /\ \/ SeenRuns[k].status = "queued" /\ SeenRuns[k].seq = worker[w].seq
       \/ SeenRuns[k].status = "absent" /\ worker[w].seq = 0
    /\ \A j \in Key \ {k} : SeenRuns[j].status # "queued"
    /\ SeenJob.status \in {"idle", "failed"}

\* Every check of the transaction passes and the guarded update finds the job free.
Acquirable(w) ==
    LET k == worker[w].key IN
    /\ job.enabled /\ job.status # "disabled"
    /\ k \in Occurrence => dispatch[k].status = "running"
    /\ \/ SeenRuns[k].status = "queued" /\ SeenRuns[k].seq = worker[w].seq
       \/ SeenRuns[k].status = "absent" /\ worker[w].seq = 0
    /\ \A j \in Key \ {k} : SeenRuns[j].status # "queued"
    /\ SeenJob.status \in {"idle", "failed"}

AnswerExisting(w) ==
    /\ worker[w].pc = "claimed"
    /\ Answered(w)
    /\ job' = SeenJob
    /\ runs' = SeenRuns
    /\ Leave(w, "report", SeenRuns[worker[w].key].status)
    /\ UNCHANGED <<dispatch, cursor, written, broker, unsent, faults, switches>>

\* The lease is taken under the run's id and the cursor is read.
Acquire(w) ==
    LET k == worker[w].key
        run == IF SeenRuns[k].status = "absent" THEN NewRun ELSE SeenRuns[k]
    IN
    /\ worker[w].pc = "claimed"
    /\ Acquirable(w)
    /\ job' = [job EXCEPT !.status = "running", !.owner = k, !.lease = "live"]
    /\ runs' = [SeenRuns EXCEPT ![k] = [run EXCEPT
          !.status = "running", !.seq = worker[w].seq, !.pending = FALSE,
          !.started = @ \cup {worker[w].seq}]]
    /\ dispatch' = IF k \in Occurrence THEN [dispatch EXCEPT ![k].linked = TRUE] ELSE dispatch
    /\ worker' = [worker EXCEPT ![w].pc = "loop", ![w].cursor = cursor, ![w].pages = run.pages]
    /\ UNCHANGED <<cursor, written, broker, unsent, faults, switches>>

\* A refusal rolls everything back, the recovery of the expired lease too.
RefuseAcquire(w) ==
    /\ worker[w].pc = "claimed"
    /\ ~Answered(w) /\ ~Acquirable(w)
    /\ Step(w, "fail")
    /\ UNCHANGED <<job, runs, dispatch, cursor, written, broker, unsent, faults, switches>>

-----------------------------------------------------------------------------
(* The page loop of run_sync_job.                                          *)

RunUnchanged == UNCHANGED <<job, runs, dispatch, cursor, written, broker, unsent, faults, switches>>

\* Top of the loop: renew the lease; a page kept from a lock error is not read again.
Renew(w) ==
    /\ worker[w].pc = "loop"
    /\ Step(w, IF ~Owns(w) THEN "error" ELSE IF worker[w].page = NoPage THEN "fetch" ELSE "fetched")
    /\ RunUnchanged

\* The provider answers, or the call fails.
Fetch(w) ==
    /\ worker[w].pc = "fetch"
    /\ \/ worker' = [worker EXCEPT ![w].pc = "fetched", ![w].page = worker[w].cursor]
       \/ Step(w, "error")
    /\ RunUnchanged

\* Wrong: the answer of the provider is written without another look at the lease.
RenewForCommit_Unchecked(w) ==
    /\ worker[w].pc = "fetched"
    /\ Step(w, "commit")
    /\ RunUnchanged

\* The lease is renewed once more before the page is written.
RenewForCommit(w) ==
    /\ worker[w].pc = "fetched"
    /\ Step(w, IF Owns(w) THEN "commit" ELSE "error")
    /\ RunUnchanged

\* The run as the page transaction saves it, with the counters the worker holds.
SavedRun(w) == [runs[worker[w].key] EXCEPT !.pages = worker[w].pages + 1]

\* The cursor behind a page that is not the last one.
NextCursor(w) == worker[w].page + 1

PageWritten(w) == written' = [written EXCEPT ![worker[w].key] = @ + 1]

\* The page's records, the counters and the cursor are committed together.
CommitPage(w) ==
    LET k == worker[w].key IN
    /\ worker[w].pc = "commit"
    /\ NextCursor(w) < MaxPages
    /\ runs' = [runs EXCEPT ![k] = SavedRun(w)]
    /\ cursor' = NextCursor(w)
    /\ PageWritten(w)
    /\ worker' = [worker EXCEPT ![w].pc = "loop", ![w].cursor = NextCursor(w),
          ![w].pages = @ + 1, ![w].page = NoPage, ![w].locks = 0]
    /\ UNCHANGED <<job, dispatch, broker, unsent, faults, switches>>

\* Wrong: only the task's report puts the dispatch back into the queue.
Yielded_Claimed(w, run) ==
    LET k == worker[w].key IN
    /\ Owns(w)
    /\ run.seq < MaxSlices
    /\ runs' = [runs EXCEPT ![k] = [run EXCEPT !.status = "queued", !.seq = @ + 1, !.pending = TRUE]]
    /\ job' = Released("idle")
    /\ Leave(w, "report", "queued")
    /\ UNCHANGED <<dispatch, broker, unsent, faults, switches>>

\* _yield_sync_slice: the run waits, pending, for its next slice and the lock is free.
Yielded(w, run) ==
    LET k == worker[w].key IN
    /\ Owns(w)
    /\ run.seq < MaxSlices
    /\ runs' = [runs EXCEPT ![k] = [run EXCEPT !.status = "queued", !.seq = @ + 1, !.pending = TRUE]]
    /\ job' = Released("idle")
    /\ dispatch' = IF k \in Occurrence THEN [dispatch EXCEPT ![k].status = "queued"] ELSE dispatch
    /\ Leave(w, "report", "queued")
    /\ UNCHANGED <<broker, unsent, faults, switches>>

\* The time budget of the slice is used up with this page.
CommitAndYield(w) ==
    /\ worker[w].pc = "commit"
    /\ NextCursor(w) < MaxPages
    /\ Yielded(w, SavedRun(w))
    /\ cursor' = NextCursor(w)
    /\ PageWritten(w)

\* The credential is about to be renewed: yield before the next page.
YieldForCredential(w) ==
    /\ worker[w].pc = "loop"
    /\ Yielded(w, runs[worker[w].key])
    /\ UNCHANGED <<cursor, written>>

\* The last page ends the run and frees the job; the cursor is empty again.
CommitLastPage(w) ==
    LET k == worker[w].key IN
    /\ worker[w].pc = "commit"
    /\ runs' = [runs EXCEPT ![k] = [SavedRun(w) EXCEPT !.status = "success"]]
    /\ cursor' = 0
    /\ PageWritten(w)
    /\ job' = Released("idle")
    /\ Leave(w, "report", "success")
    /\ UNCHANGED <<dispatch, broker, unsent, faults, switches>>

\* The page transaction rolls back; what the worker holds in memory does not.
CommitFails(w) ==
    /\ worker[w].pc = "commit"
    /\ worker' = [worker EXCEPT ![w].pc = "error", ![w].pages = @ + 1, ![w].cursor = NextCursor(w)]
    /\ RunUnchanged

\* Wrong: the counters of a page that was rolled back are kept.
Refreshed_KeepsPages(w, lockError) ==
    [worker[w] EXCEPT !.cursor = cursor, !.page = IF lockError /\ @ = cursor THEN @ ELSE NoPage]

\* Wrong: the cursor of a page that was rolled back is kept.
Refreshed_KeepsCursor(w, lockError) ==
    [worker[w] EXCEPT !.pages = runs[worker[w].key].pages,
        !.page = IF lockError /\ @ = cursor THEN @ ELSE NoPage]

\* What is left of the worker's memory once it has read cursor and run again.  The
\* page is kept only after a lock error, and only if it still is the next one.
Refreshed(w, lockError) ==
    [worker[w] EXCEPT !.cursor = cursor, !.pages = runs[worker[w].key].pages,
        !.page = IF lockError /\ @ = cursor THEN @ ELSE NoPage]

\* An error of a worker that does not own the lease any more ends its task.
ErrorNotOwner(w) ==
    /\ worker[w].pc = "error"
    /\ ~Owns(w)
    /\ Leave(w, "fail", "none")
    /\ RunUnchanged

\* Retry with backoff: lock errors are counted per page, others per run.
Retry(w) ==
    LET k == worker[w].key IN
    /\ worker[w].pc = "error"
    /\ Owns(w)
    /\ \E lockError \in BOOLEAN :
          /\ IF lockError THEN worker[w].locks < MaxLockRetries
                          ELSE runs[k].retries < MaxRetries
          /\ worker' = [worker EXCEPT ![w] = [Refreshed(w, lockError) EXCEPT
                !.pc = "loop", !.locks = IF lockError THEN @ + 1 ELSE @]]
    \* Above max_retry_count the counter only has to stay there.
    /\ runs' = [runs EXCEPT ![k].retries = IF @ < MaxRetries THEN @ + 1 ELSE @]
    /\ UNCHANGED <<job, dispatch, cursor, written, broker, unsent, faults, switches>>

\* No retry is left, or the error is final: time limit, configuration.
GiveUp(w) ==
    /\ worker[w].pc = "error"
    /\ Owns(w)
    /\ worker' = [worker EXCEPT ![w] = [Refreshed(w, FALSE) EXCEPT !.pc = "failing"]]
    /\ RunUnchanged

\* The final failure frees the job without looking at the lease again.
FailRun(w) ==
    LET k == worker[w].key IN
    /\ worker[w].pc = "failing"
    /\ runs' = [runs EXCEPT ![k].status = "failed", ![k].pages = worker[w].pages]
    /\ job' = Released("failed")
    /\ Leave(w, "report", "failed")
    /\ UNCHANGED <<dispatch, cursor, written, broker, unsent, faults, switches>>

-----------------------------------------------------------------------------
(* The end of a task.                                                      *)

\* The task copies the state of the run it was given to its running dispatch.
Report(w) ==
    LET k == worker[w].key IN
    /\ worker[w].pc = "report"
    /\ dispatch' = IF k \in Occurrence /\ dispatch[k].status = "running"
                   THEN [dispatch EXCEPT ![k].status = worker[w].result] ELSE dispatch
    /\ EndTask(w)
    /\ UNCHANGED <<job, runs, cursor, written, unsent, faults, switches>>

\* fail_queued_sync_run looks for a queued run of the key ...
FindQueuedRun(w) ==
    /\ worker[w].pc = "fail"
    /\ Step(w, IF runs[worker[w].key].status = "queued" THEN "failWrite" ELSE "block")
    /\ RunUnchanged

\* ... and saves it as failed, whatever has become of it meanwhile.
FailQueuedRun(w) ==
    LET k == worker[w].key IN
    /\ worker[w].pc = "failWrite"
    /\ runs' = IF runs[k].status = "absent" THEN runs ELSE [runs EXCEPT ![k].status = "failed"]
    /\ Step(w, "block")
    /\ UNCHANGED <<job, dispatch, cursor, written, broker, unsent, faults, switches>>

BlockDispatch(w) ==
    LET k == worker[w].key IN
    /\ worker[w].pc = "block"
    /\ dispatch' = IF k \in Occurrence /\ dispatch[k].status = "running"
                   THEN [dispatch EXCEPT ![k].status = "blocked"] ELSE dispatch
    /\ EndTask(w)
    /\ UNCHANGED <<job, runs, cursor, written, unsent, faults, switches>>

-----------------------------------------------------------------------------
(* Recovery by the scheduler tick.                                         *)

\* recover_expired_running_jobs, and the same recovery in dispatch_due_jobs.  The
\* runtime limit lies above the hard limit of the task, so a live lease is only
\* recovered once the worker is dead.
RecoverRunning ==
    /\ job.status = "running"
    /\ job.lease = "expired" \/ OnRun(job.owner) = {}
    /\ job' = Released("failed")
    /\ runs' = FailedRuns
    /\ dispatch' = [d \in Occurrence |->
          IF dispatch[d].status = "running"
          THEN [dispatch[d] EXCEPT !.status = "failed"] ELSE dispatch[d]]
    /\ UNCHANGED <<cursor, written, broker, unsent, worker, faults, switches>>

\* Wrong: a status that the rest of the program does not know.
RecoverUnstarted_Unknown(d) ==
    /\ dispatch[d].status = "running" /\ ~dispatch[d].linked
    /\ ~Busy
    /\ \A k \in Key : runs[k].status # "running"
    /\ dispatch' = [dispatch EXCEPT ![d].status = "timeout"]
    /\ UNCHANGED <<job, runs, cursor, written, broker, unsent, worker, faults, switches>>

\* recover_unstarted_dispatches: claimed some time ago, no run created since.
RecoverUnstarted(d) ==
    /\ dispatch[d].status = "running" /\ ~dispatch[d].linked
    /\ ~Busy
    /\ \A k \in Key : runs[k].status # "running"
    /\ dispatch' = [dispatch EXCEPT ![d].status = "failed"]
    /\ UNCHANGED <<job, runs, cursor, written, broker, unsent, worker, faults, switches>>

\* recover_orphan_queued_dispatches: two scans prove that the message is gone.
RecoverOrphan(d) ==
    /\ OrphanRecovery
    /\ Due /\ job.owner = NoKey
    /\ dispatch[d].status = "queued" /\ dispatch[d].enqueued /\ ~dispatch[d].linked
    /\ \A k \in Key : ~ActiveRun(k)
    /\ FirstMessage(d) \notin broker
    /\ dispatch' = [dispatch EXCEPT ![d].status = "dispatch_failed"]
    /\ UNCHANGED <<job, runs, cursor, written, broker, unsent, worker, faults, switches>>

-----------------------------------------------------------------------------
(* The operator.                                                           *)

\* toggle_sync_job refuses while the job runs or a run is queued or running.
Toggle(on) ==
    /\ switches < MaxSwitches
    /\ job.status # "running"
    /\ \A k \in Key : ~ActiveRun(k)
    /\ on => job.lease # "live"
    /\ job' = [job EXCEPT !.enabled = on, !.status = IF on THEN "idle" ELSE "disabled"]
    /\ switches' = switches + 1
    /\ UNCHANGED <<runs, dispatch, cursor, written, broker, unsent, worker, faults>>

\* disable_integration_config disables the jobs of a configuration whatever they
\* do; disable_sync_job does the same after a check it makes without a lock.
DisableConfig ==
    /\ switches < MaxSwitches
    /\ job' = [job EXCEPT !.enabled = FALSE, !.status = "disabled"]
    /\ switches' = switches + 1
    /\ UNCHANGED <<runs, dispatch, cursor, written, broker, unsent, worker, faults>>

-----------------------------------------------------------------------------
(* The environment.                                                        *)

\* The heartbeat stops in time: its worker is dead, or cannot reach the database.
LeaseExpires ==
    /\ job.lease = "live"
    /\ "slow_commit" \notin Mishaps =>
          \A w \in OnRun(job.owner) : worker[w].pc \notin Unchecked
    /\ job' = [job EXCEPT !.lease = "expired"]
    /\ UNCHANGED <<runs, dispatch, cursor, written, broker, unsent, worker, faults, switches>>

\* A worker that has claimed the dispatch of a run that waits to be resumed.
HoldsWaiting(w) ==
    /\ worker[w].pc \in {"claimed", "fail", "failWrite"}
    /\ worker[w].key \in {d \in Occurrence : dispatch[d].linked}

\* The worker process is killed; its message is acknowledged or delivered again.
Crash(w) ==
    /\ worker[w].pc # "idle"
    /\ faults < MaxFaults
    /\ "killed_claim" \notin Mishaps => ~HoldsWaiting(w)
    /\ worker' = [worker EXCEPT ![w] = Idle]
    /\ broker' \in {broker, broker \ {MessageOf(w)}}
    /\ faults' = faults + 1
    /\ UNCHANGED <<job, runs, dispatch, cursor, written, unsent, switches>>

\* The publisher is killed after its commit, before or after its submission.
PublisherCrash(k) ==
    /\ k \in unsent
    /\ faults < MaxFaults
    /\ "killed_publisher" \in Mishaps
    /\ unsent' = unsent \ {k}
    /\ broker' \in {broker, broker \cup {FirstMessage(k)}}
    /\ faults' = faults + 1
    /\ UNCHANGED <<job, runs, dispatch, cursor, written, worker, switches>>

LoseMessage(m) ==
    /\ m \in broker
    /\ faults < MaxFaults
    /\ broker' = broker \ {m}
    /\ faults' = faults + 1
    /\ UNCHANGED <<job, runs, dispatch, cursor, written, unsent, worker, switches>>

-----------------------------------------------------------------------------

TaskStep(w) ==
    \/ \E m \in broker : Receive(w, m)
    \/ Claim(w) \/ ClaimRefused(w) \/ Defer(w) \/ RejectPreflight(w)
    \/ AnswerExisting(w) \/ Acquire(w) \/ RefuseAcquire(w)
    \/ Renew(w) \/ Fetch(w) \/ RenewForCommit(w) \/ YieldForCredential(w)
    \/ CommitPage(w) \/ CommitAndYield(w) \/ CommitLastPage(w) \/ CommitFails(w)
    \/ ErrorNotOwner(w) \/ Retry(w) \/ GiveUp(w) \/ FailRun(w)
    \/ Report(w) \/ FindQueuedRun(w) \/ FailQueuedRun(w) \/ BlockDispatch(w)

SchedulerStep ==
    \/ ReconcileDue
    \/ \E d \in Occurrence : DispatchDue(d) \/ RecoverUnstarted(d) \/ RecoverOrphan(d)
    \/ \E k \in Key : Publish(k) \/ PublishFails(k) \/ ResumeSubmit(k)
    \/ RecoverRunning

OperatorStep ==
    \/ \E on \in BOOLEAN : Toggle(on)
    \/ DisableConfig
    \/ \E k \in Manual : EnqueueManual(k)

EnvironmentStep ==
    \/ LeaseExpires
    \/ \E w \in Worker : Crash(w)
    \/ \E k \in Key : PublisherCrash(k)
    \/ \E m \in broker : LoseMessage(m)

Next == (\E w \in Worker : TaskStep(w)) \/ SchedulerStep \/ OperatorStep \/ EnvironmentStep

Spec == Init /\ [][Next]_vars

(***************************************************************************)
(* A worker that is not killed goes on, and the control tick comes every   *)
(* minute and visits every job in turn; a pause only delays it.  No        *)
(* fairness for the operator, new plan slots or faults.                    *)
(***************************************************************************)
Fairness ==
    /\ \A w \in Worker : WF_vars(TaskStep(w))
    /\ \A k \in Key : WF_vars(Publish(k) \/ PublishFails(k)) /\ WF_vars(ResumeSubmit(k))
    /\ \A d \in Occurrence : WF_vars(RecoverUnstarted(d)) /\ WF_vars(RecoverOrphan(d))
    /\ WF_vars(ReconcileDue)
    /\ WF_vars(RecoverRunning)

FairSpec == Spec /\ Fairness

-----------------------------------------------------------------------------
(* What the engine promises.                                               *)

\* A run is RUNNING only while the job's lock token is its own: no two runs of a
\* job run at once, and none is left running behind a freed lock.
RunHoldsLock == \A k \in Key : runs[k].status = "running" => job.owner = k

\* Of all workers that believe they execute a run, the ones that lost their lease
\* included, at most one is past its last check and about to write.
SingleWriter ==
    \A v, w \in Worker : worker[v].pc \in Unchecked /\ worker[w].pc \in Unchecked => v = w

\* The durable counters of a run count the pages that were committed, whatever was
\* rolled back, retried or resumed in between.
PagesCounted == \A k \in Key : runs[k].pages = written[k]

\* A planned occurrence that was given up, skipped or closed is executed by no
\* worker that holds the lease.
EndedNotExecuting ==
    \A d \in Occurrence : dispatch[d].status \in Ended => \A w \in OnRun(d) : ~Owns(w)

\* The cursor moves page by page or back to the start, so no page is skipped and
\* a worker that was replaced never moves it back.
PagesInOrder == [][cursor' \in {cursor, cursor + 1, 0}]_vars

\* A late or repeated message never starts a slice that was already started.
SliceStartedOnce ==
    [][\A k \in Key :
          runs'[k].status = "running" /\ runs[k].status # "running"
          => runs'[k].seq \notin runs[k].started]_vars

\* Every occurrence that was queued comes to an end.
OccurrenceEnds ==
    \A d \in Occurrence :
        dispatch[d].status \in {"queued", "running"} ~> dispatch[d].status \in Ended

\* A run that waits for its next slice is resumed, or ends.
ContinuationResumes ==
    \A k \in Key :
        runs[k].status = "queued" /\ runs[k].pending
        ~> ~(runs[k].status = "queued" /\ runs[k].pending)

\* A run whose worker is gone does not stay RUNNING.
LostRunReconciled ==
    \A k \in Key :
        runs[k].status = "running" /\ OnRun(k) = {} ~> runs[k].status # "running"

=============================================================================
