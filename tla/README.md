# Packing, shipping, payments, synchronisation and governed execution, in TLA+

Specifications, model-checking configurations and machine-checked proofs for the
supply part, the synchronisation engine and the governed execution of the
collaboration system in `src/saas-collab-system` (a Django backend with Vue,
mini-program and RPA clients, and a runner service). All paths below are relative to
`src/saas-collab-system/backend/apps` unless they say otherwise.

## 1. Inventory

The backend keeps all state in one relational database. Every domain service is
a set of functions that open one transaction, lock the rows they decide on with
`select_for_update`, check an `expected_version`, write rows and an append-only
event, and commit. Concurrency is therefore between transactions; what survives
from one transaction to the next (versions captured earlier, counters kept by
differences, rows that other services point to) is where things can go wrong.

| component | state | operations | what makes it correct |
| --- | --- | --- | --- |
| packing batches (`packing/services.py`) | batch status and version, boxes with their items, one allocation row per batch and order line, change requests | create, add/replace/remove box, complete, cancel, submit/approve/reject a change | allocation rows say what is in the boxes; a change is applied only to the state it was written against |
| order-line projection (`purchasing/models.py`, written by packing) | reserved, packed and shipped quantity per order line | by difference, from every batch action and from a shipment's commit | counters equal what batches hold; nothing produced once is boxed or shipped twice |
| box consumption ledger (`packing/services.py`) | rows (box, consumer, state, active_guard) | reserve, commit, release, transfer | at most one active consumer per box; history is kept |
| consolidation sites (`consolidation/services.py`) | region, active flag, interval | create, update, deactivate | an arrangement is made only with an effective site of its region |
| consolidations (`consolidation/services.py`) | status, site, region, one allocation row per box | create, update, allocate, remove, release, handover, receive, exception, controlled release, ready, transfer, cancel | status says where the boxes are; the box set is frozen at release |
| shipments (`shipping/services.py`) | status, region, origin, one allocation per box | create, update, allocate, customs, dispatch, port, warehouse, clear, cancel, exception | a shipment is never ahead of its boxes; each box is shipped once |
| idempotent commands (all three services, `packing/api_idempotency.py`) | events keyed by tenant and key, request hash | replay, version check | a command takes effect once however often it is sent |
| sync engine (`integrations/sync_services.py`, `scheduler.py`, `tasks.py`, `credential_coordination.py`) | job with lock token and lease, runs, planned occurrences (dispatches), cursor; messages at the broker; the memory of each worker | dispatch, enqueue, claim, acquire, fetch, commit a page, yield, retry, fail, report, resume, recover, enable, disable | one run of a job executes, and writes, at a time; each page is counted once and in order; what was queued comes to an end |
| governed execution (`pilot/execution.py`, `tasks.py`, `execution_views.py`, the transitions of `services.py`) | release plans and performance runs, execution rows, Celery messages, the memory of each worker | execute, enqueue, poll, finish, dispatch stale rows, operators' transitions | a success is real, a verdict stands, every execution comes to one |
| controlled runner (`pilot-runner/app.py`, a service of its own) | operation store (survives a restart), slots, environment locks, threads (do not) | submit, execute, record, audit, restart | a command is started once and alone in its environment |
| payments (`supply_chain/costs.py`, `payment_requests.py`, `payment_batches.py`, `payment_request_evidence.py`, `workflows/services.py`) | dues, requests and batches with their approval, payments, deductions, reversals | draft, submit, upload, approve, confirm, decline, cancel, pay, deduct, reverse, revise a fee, register a total | nothing is paid beyond what is due or without its approval; a deposit covers its deductions |
| credentials, controlled files, releases, workflows, RPA | own tables | own services | see PROJECT.json |

How they interact: `shipping` calls `consolidation` to transfer an allocation,
`consolidation` calls `packing` to reserve, commit, release and transfer the
ledger row of a box, and `shipping` calls `packing` to commit it at dispatch;
each call runs inside the caller's transaction, so it commits or rolls back with
it. `packing` and `purchasing` share the projection row of an order line.

The sync engine is the other kind of program: a scheduler tick, Celery workers
and web requests meet in the rows of a job, exchange messages through a broker
that delivers at least once and may lose one, and any of them may be killed
between two transactions.

Governed execution joins two programs. The backend asks the runner over HTTP under
an idempotency key and outside of its database locks; answers get lost or come
late, messages of Celery are repeated or lost, and either side may be restarted
while the other goes on.

Payments are a third kind: every operation takes the lock of its tenant, so there
is no interleaving inside one, but many operations promise or spend the same due
amount, and what a promise is worth depends on the state of an approval.

Hard to test: batches competing for a line through a counter; a change approved
long after it was written; two consumers racing for a box; receipts, exceptions
and releases in any order; partial dispatch; multi-box calls refused half way;
replayed and late commands; workers that lose their lease, die or are overtaken
between two transactions; messages lost or repeated; a stale answer of the runner
after the verdict; commands across a restart; reservations, payments, deductions
and reversals in any order. The `hazards` of
PROJECT.json give the forty that weigh most, each at its line. Lesser ones, none of
which a property covers yet: a reservation replayed after its box was committed
(`packing/services.py:1810`); a consolidation that cannot be cancelled once a box was
removed (`consolidation/services.py:1197`); two shipments with one number
(`shipping/services.py:92`); the order in which boxes and batches are locked
(`shipping/services.py:557`); the capacity lanes between jobs
(`integrations/sync_dispatch_policy.py`); the late report and the killed publisher of
section 2 (`integrations/tasks.py:136`, `scheduler.py:311`); a runner whose store fails
between taking the lock and marking the row (`pilot-runner/app.py:836`); a rejection
for a busy environment, stored under the key and repeated to every retry
(`pilot-runner/app.py:828`); a verdict that overwrites what an operator has recorded
meanwhile (`pilot/execution.py:424`); the fee of a batch revised below what was paid
(`supply_chain/costs.py:473`) and a historic total registered over submitted requests
(`costs.py:835`).

## 2. Modules

| module | what it is |
| --- | --- |
| `PackingFulfillment` | batches, boxes, corrections and the quantity counters of the lines |
| `QuantitySums` | sums of quantities, as counts of the units behind them (used by `PackingFulfillment`) |
| `QuantitySumsProofs`, `PackingProofs` | the lemmas about such sums; theorems about `PackingFulfillment` |
| `BoxConsumption` | the ledger: the four calls, for all the boxes of a transaction at once |
| `LooseCargoConsolidation` | sites and consolidations (extends `BoxConsumption`) |
| `LooseCargoShipment` | shipments, and the composition of the three services: `Init`, `Next`, `Spec` and the properties |
| `BoxCustody` | the abstract promise: a box is in one place, held by one party, and moves forward |
| `LooseCargoProofs`, `LooseCargoStageProofs` | theorems about `LooseCargoShipment`: custody of boxes; statuses, routes and the refinement of `BoxCustody` |
| `SyncEngine` | one synchronisation job: its requests, broker, workers, lease, page loop and recoveries |
| `SyncEngineProofs` | theorems about `SyncEngine` |
| `ControlledRunner` | the runner: operation store, slots, environment locks, ledger, restart |
| `PilotExecution` | web request, execution row, workers and operators (extends `ControlledRunner`), with `Init`, `Next`, `Spec` of both |
| `ControlledRunnerProofs`, `PilotExecutionProofs` | the invariant of the runner under its calls; theorems about the composition |
| `Payments`, `PaymentsProofs` | requests, batches, payments, deposits and deductions over what sources owe; theorems |
| `MCPackingFulfillment`, `MCLooseCargo`, `MCSyncEngine`, `MCPilotExecution`, `MCPayments` | instances for TLC |

**Actions.** In the supply modules one service function is one action, because it is one transaction
that locks what it reads. A refused call is a stuttering step and is not written
down. A batch completed through `CompleteBatch` refreshes and freezes in one
action, as the code does. Operators whose name has a suffix after an underscore
(`BoxIsFree_Reserved`) are wrong variants of the operator before it, kept to show
that a property notices them; no specification uses them.

**PackingFulfillment.** `boxes[b][n]` is box number `n` of batch `b` with what it
holds and a slot that summarises its consumption rows. `alloc[b][l]` is the
allocation row, `reserved`, `packed` and `shipped` the projection. `change[c]`
carries the version it was submitted against. `expected_version` of a call is no
parameter: it only decides between acceptance and refusal, and a call that names
the present version is always possible. `Fits` and `RefreshReservations` are
`_validate_quantities` and `_refresh_batch_reservations`; `ReplaceLayout` is
`_replace_completed_layout`, with the lines it books and the lines it does not.

**The ledger.** `ledger[b]` is the sequence of rows of a box. `active_guard` is
written with the state at every place, so it is `state # "RELEASED"`. An
allocation points to its row by number. Multi-box calls take the set of boxes:
one refusal refuses all, which is what the rollback does.

**SyncEngine.** A transaction, or a statement outside of one, is one action; what
a task reads before it and uses after it is in `worker[w]`, whose `pc` is the
place in `run_readonly_sync_job` and `run_sync_job`:

    received -> claimed -> loop -> fetch -> fetched -> commit -> loop ...
                   |         |       |        |          |-> report (end, slice)
                   |         +-------+--------+----------+-> error -> loop (retry)
                   |                                           |-> failing -> report
                   +-> fail <----------------------------------+ (lease lost)
                         |-> failWrite -> block

`job.owner` is `lock_token`, `job.lease` the position of `lock_expires_at` against
the clock: a lease is live until `LeaseExpires`, which may happen whenever the
heartbeat may have stopped. `runs[k]` is the run with idempotency key `k`; `seq`
and `pending` are its `runtime_budget`, `started` is a history variable with the
slices it was started for, `pages` stands for all the counters, `written` counts
the pages that were committed. `broker` is a set: a message stays until its task
has ended (`acks_late`) and may be delivered to two workers. `unsent` holds what is
committed and not yet submitted. Runs of two keys meet in one job; jobs meet only
in the capacity admission, a refusal, so one job is modelled.

`Mishaps` names four windows the code leaves open; each is in a guard and each
run says which it allows. `slow_commit`: a worker stalls between its last
`_renew_lease` and its commit for a whole lease (900 s by default); neither the end
of a page nor the final failure looks at the lease again. `late_report`: it stalls
between a yield and the update of its dispatch for more than the minute after
which the run is resumed. `killed_claim`: it is killed between claiming the
dispatch of a waiting run and taking the lease. `killed_publisher`: the process
that committed a request is killed before it has submitted and noted it. With
`slow_commit` `SingleWriter` and `RunHoldsLock` do not hold, with `late_report`
`EndedNotExecuting` does not; with `killed_publisher` an occurrence may stay queued,
which the code accepts rather than submit twice; `killed_claim` is a finding.

**ControlledRunner.** `op[k]` is the row of the operation store under key `k`
together with the thread that works on it (`phase`); `exit` is how its command
ended and `starts` counts how often it was started, both for the properties. The
claim is a step of its own, because the store inserts the row before anything is
admitted; admission is three more, as in `submit`: the slot (`TakeSlot`), the lock of
the environment together with the running row (`TakeLock`), the ledger and the pool
(`Start`, `StartFails`). A request refused because its environment is busy therefore
holds a slot until it is turned away (`Reject`). A rejected row stays rejected under
its key. With two keys and two slots no request of `pilot_contention` is refused for
want of a slot; the theorems cover any number of both. Commands die with the service: systemd ends the whole
control group (`deploy/pilot/runner/runner.service`). The failures of the ledger are
counted with the crashes in `MaxFaults`.

**PilotExecution.** The web request is four steps, because it reads the plan without
a lock (`ReadSource`), looks for active executions (`CheckActive`), writes
(`CreateExecution`) and publishes after the commit (`Enqueue`, `QueueUnavailable`,
`WebCrash`). A worker takes the row in one transaction, talks to the runner outside
(`Post` may reach it without `Reply` coming back) and writes what it has heard in
another. `known` is whether `runner_job_id` was saved when the row was read,
`overdue` whether `runner_deadline_at` is over. `broker` is the set of executions with
a message; `Retry` chooses between a new message and the end of the retry budget.
Operators act between any two steps; `Operators` names which of their actions an
instance has.

**Payments.** `due` is `settlement_amount`, a number or not known yet; `case` a request
or a batch with its approval, the status of its lines kept once; `payment` and
`deduction` the rows by idempotency key, with a reversal row as the state
"reversed"; a line pays under `payment-request-<id>`, so its payment has its name.
`Fits` and `Available` are the checks of the remaining amount with reservations.
Approval and posting are one transaction and one step. What an order or shipment
owes is fixed at the start; that of a freight is revised.

**Left out.** In governed execution: recovery plans and drills, the review of plans
before they are scheduled, separation of duties, the retries inside the HTTP
client (they repeat `Post`). In payments: versions (a call that names an old one is
refused), roles, payee and item snapshots, the itemised fees of batches and
inbounds, voucher contents. In the engine: history segments, the tenant lease of advertising
jobs, affiliate refreshes, the capacity lanes, and an exception between taking
the lease and the loop, which leaves what a crash there leaves. In the supply
part: times (an effective interval may lapse between two calls, so an
action that asks for an effective site may always be refused), tenants,
permissions and data scopes (each action is one they let through), snapshots and
audit rows, labels and weights, production progress (constant per line; more
production only relaxes guards), `mark_shipment_exception` (changes the version
only).

## 3. Runs

| run | question | bounds and why they are enough |
| --- | --- | --- |
| `packing_mixed` | do counters, allocation rows and boxes keep agreeing through fills, completion, cancellation, corrections and consumption? | 2 batches, 2 lines of which one is shared, 2 produced of each, up to 2 boxes, 1 change, version 4: enough for a line to leave a box, a batch and a correction, and for the other batch to compete |
| `packing_shared` | is a unit boxed at most once, and can each loaded box be dispatched? | 2 batches, 1 line, boxes of 1 or 2 units, 2 changes, version 5: two corrections of the same batch, and a correction against a competitor's reservation |
| `loose_cargo` | do ledger, allocations and statuses agree, and does the chain keep `BoxCustody`? | 2 boxes, 2 consolidations, 2 shipments, 1 site, 2 regions, a box reserved up to twice: competing claims, release and re-claim, partial transfer and dispatch, and re-routing |
| `packing_added_line` | finding, see below | as `packing_mixed` |
| `packing_repack` | finding, see below | as `packing_mixed` |
| `sync_contention` | do two requests for one job ever run, or write, at once, through lost leases, repeated messages, a crash and an operator who switches the job? | 2 workers, 1 occurrence and 1 manual request, 1 page, 1 extra slice, 1 fault, 1 switch; `killed_claim` and `killed_publisher` allowed. Two workers and two keys are the least that compete; a second slice makes an old message dangerous |
| `sync_recovery` | are pages counted once and in order, and does everything queued come to an end? | 2 workers, 1 occurrence, 3 pages, up to 3 slices, 1 deferral, 1 retry of each kind, 2 faults; no mishap. A page can be rolled back, repeated and resumed with a predecessor and a successor, and the recovery of one fault can meet the other |
| `sync_killed_claim` | finding, see below | as `sync_recovery`, 1 fault, `killed_claim` |
| `sync_disabled_run` | finding, see below | as `sync_recovery`, no fault, 1 switch |
| `pilot_contention` | is a command started once, and alone in its environment, through repeated messages, lost answers and a restart? | 2 requests for one plan, 1 worker, 2 slots, 1 environment, 1 fault, no operators: two executions of one plan are possible and meet at one lock, and the second slot shows that it is the lock that keeps them apart |
| `pilot_verdict` | is a success real, does a verdict stand, does every execution come to one? | 1 request for a plan or a performance run, 2 workers that may both have it, a plan at any place where it may rest (scheduled, waiting for its rollback, or for a person), all operators up to version 3, 1 fault: a stale answer needs a second worker, and version 3 lets operators act while the execution runs or prepare a rollback before it |
| `payments` | is every payment approved, backed and within what is due? | 1 order, 2 shipments, a freight whose fee changes, a request, a batch over both shipments, a request approved before, 1 payment by hand, 2 deductions, dues up to 2, amounts of 1: a shipment that owes 2 is wanted by the request, the batch, a payment and a deduction, and a deposit of 1 by two deductions |

`MaxVersion`, `MaxBoxes` and `MaxRows` are the only bounds of the supply modules;
each is in a guard and makes the model stop where the system would go on, so
deadlock is not checked. In `SyncEngine` `MaxSlices`, `MaxWaits`, `MaxFaults` and
`MaxSwitches` bound what may happen any number of times; `MaxPages` is data, and
`MaxRetries` and `MaxLockRetries` are the program's own limits. A job with no request
left is at rest, so deadlock is not checked there either. In `PilotExecution`
`MaxFaults` bounds crashes, restarts and ledger failures, and `MaxVersion` what
operators do; lost answers, repeated messages and retries are not bounded. With every request answered and
every execution finished it is at rest. In `Payments` the amounts, what sources
owe and the keys are finite and payments are never deleted, so it comes to rest.
The symmetric sets are those no constant tells apart.

**Properties.** `ReservationsBacked`, `AllocationsMatchBoxes`,
`PackedNeverOverstated` and `ShippedMatchesBoxes` relate each counter to the rows
and boxes it summarises. `NeverBoxedTwice` and `DispatchNeverBlocked` are what the
counters are for. `ChangeAppliesOnce` is the optimistic lock of corrections,
`ConsumedBoxKept` their exclusion of consumed boxes. `OneActiveConsumer`,
`AllocationHasRow`, `HolderHasAllocation` and `ShippedOnce` tie the ledger to the
allocations of two services. `ConsolidationStages` and `ShipmentMilestones` say
that a status tells where the boxes are, `RouteAgreement` that re-routing never
separates a box from its route, `BoxesFrozenAfterRelease` that the box set of a
released consolidation only shrinks and of a ready one is fixed.
`ImplementsCustody` is the refinement: place and holder of a box are read off the
allocations and every transaction is a step of `BoxCustody` or none.

`RunHoldsLock`, `SingleWriter` and `EndedNotExecuting` are what lock token, lease and
dispatch status are for, against workers that believe they still hold them.
`SliceStartedOnce` is the sequence fence against late and repeated messages.
`PagesCounted` and `PagesInOrder` compare the durable counters and cursor with what
was committed, whatever the memory of a worker went through. `OccurrenceEnds`,
`ContinuationResumes` and `LostRunReconciled` are the promises of the scheduler.

`CommandOnce` is what the store is for, against every repetition and restart;
`EnvironmentExclusive` what the lock is for, against two executions of one plan,
which the backend does not prevent. `SuccessIsReal` relates the row in the backend
to the exit of a command in the other service. `VerdictFinal` is against stale
answers, `EveryExecutionEnds` against lost messages, killed workers and a runner that
never answers.

`PaidAsApproved` relates approval, request, batch and payments in every order of
confirmation, cancellation and reversal; `DepositsBacked` deposits and their
deductions; `NeverBeyondDue` says that no payment, deduction or submission goes
beyond what is left of the due with all that others were promised.

**Fairness.** In `PilotExecution` a worker that has begun goes on (every request has a
timeout, the task a time limit), the beat publishes stale executions, deadlines
pass, a delivery past the deadline is handled, and the message of an execution is
not passed over for ever (strong fairness of `Take`, since workers may be busy with
others again and again). Nothing is assumed of the runner, the web or the
operators. None in the supply part and in payments: progress there is a person's decision, and
nothing in the code schedules it. In `SyncEngine` a worker that is not killed goes
on (`TaskStep`, the task time limit ends what hangs), and the periodic task
`dispatch_due_readonly_sync_jobs` runs every minute and serves jobs in turn
(`fair_job_ids`), so what it does under conditions that stay true is done:
`Publish`, `ResumeSubmit`, `ReconcileDue` and the three recoveries. A worker that
fell out of its lease is recovered by the runtime limit at the latest, which lies
above the hard limit of the task; that is the second disjunct of `RecoverRunning`.
No fairness for new slots, requests, switches, faults or lease expiry.
`OccurrenceEnds` needs `SYNC_ORPHAN_QUEUED_DISPATCH_RECOVERY_ENABLED` (off by default):
without it the loss of a first message leaves its occurrence queued.

**Findings.**

- `packing_added_line` (code bug). An approved correction that adds a linked line
  freezes an allocation for it and never books it as packed
  (`packing/services.py:1608`), so the projection of the line no longer equals
  what is frozen; another batch may box the same units and a later dispatch may
  be refused. Otherwise the accounting is exact: `packing_shared` checks it where
  every correction keeps the one line, `PackedMatchesFrozenHolds` proves it for all
  behaviours without such a correction. The counter is never too high
  (`PackedNeverOverstatedHolds`).
- `packing_repack` (code against document). The contract lets a box be re-packed
  once its uncommitted consumer is released; the released row still references
  the box (`on_delete=PROTECT`, `packing/models.py:433`), so the deletion in the
  approval is refused for ever.
- `sync_killed_claim` (code against comment). A task marks the dispatch of a
  continuation RUNNING before it takes the lease (`integrations/tasks.py:101`). Killed
  in between, it leaves a claimed dispatch with a run that waits: the recovery of
  unstarted dispatches looks only at those without a run
  (`integrations/scheduler.py:57`), and every message that is sent again is answered
  `not_executed`. The slot, the run and with them the job are stuck, although
  "a later control tick resubmits this sequence" (`scheduler.py:372`).
- `sync_disabled_run` (code against comment). Disabling a configuration sets its
  jobs DISABLED while they run (`integrations/views.py:2315`). The worker loses its
  lease and leaves; the recovery of lost workers looks only at RUNNING jobs
  (`scheduler.py:30`), so the run stays RUNNING, and `toggle_sync_job` refuses to
  enable a job with such a run. The same update strands a run that waits for its
  next slice.

## 4. Proofs

Every safety property that a passing run checks, invariant or action property, and
the refinement of `BoxCustody` is also a theorem, for every value of the constants.

`PackingProofs` proves, for every number of batches, lines, boxes, changes and
versions and all quantities:

- `TypeCorrect`, `AllocationsMatchBoxesHolds`, `ReservationsBackedHolds`,
  `PackedNeverOverstatedHolds`, `ShippedMatchesBoxesHolds`, `ConsumedBoxKeptHolds`,
  `ChangeAppliesOnceHolds`: the property of that name, of `Spec`;
- `PackedMatchesFrozenHolds`, `NeverBoxedTwiceHolds`, `DispatchNeverBlockedHolds`: of
  `Spec /\ [][KeepsLines]_vars`. `KeepsLines` excludes one kind of step, the
  correction that brings in a line the batch did not hold, which is the finding
  `packing_added_line`; with it the three properties are false;
- `OneLineLedger`: where every batch is linked to one line, `Spec` alone implies
  these three. `packing_shared` is such an instance.

Assumption: `PackingAssumption` (shape of the constants; finitely many batches, as in
any database).

The argument. `Inv` adds to the types and `AllocationsMatchBoxes` that a batch has
boxes and rows only once it was started (`Started`) and that only completed batches
have consumed boxes (`ConsumedAreCompleted`). Actions are reduced to what they do to
their one batch: refilled, completed, cancelled, corrected, handed to a consumer
(`StepCases`), and each counter is compared with the rows case by case; that only
one batch moves makes a sum over batches change by the difference of that batch
(`HeldByAllStep`). `PackedMatchesFrozen` is one step from `PackedNeverOverstated`: the
only move that freezes more than it packs is the one of the finding.
`NeverBoxedTwice` needs `WithinProduced` (reserved and packed together never exceed
what was produced) and that boxes are counted by rows, `DispatchNeverBlocked` that a
loaded box and what is shipped are disjoint parts of what a line has frozen.
`ChangeAppliesOnce` rests on `ChangesBehind`: a change that is applied is behind the
version of its batch, and versions only grow. Sums are counts of units
(`QuantitySums`), not recursive folds, so their laws (`SumDisjoint`, `SumChange`,
`SumByGroups` and others in `QuantitySumsProofs`) follow from facts about finite sets.

`LooseCargoProofs` proves, for every set of boxes, consolidations, shipments,
sites and regions and every `MaxRows`:

- `TypeCorrect`: `Spec => []TypeOK`;
- `CustodyInvariant`, and from it `OneActiveConsumerHolds`,
  `AllocationHasRowHolds`, `HolderHasAllocationHolds`;
- `ShippedOnceHolds`.

Assumptions: the identities of consolidations and shipments are disjoint
(the ledger row carries the consumer's type) and `None` is none of them.

The argument. None of the three custody properties is inductive alone. A commit
or release finds its row through the allocation, so it hits the right row only
if the allocation points to a row of its own consumer (`AllocationHasRow`); a
claim is safe only if a box without active row has no live allocation, and a
transfer leaves one active row only if the row it ends was the only one
(`OneActiveConsumer`, `HolderHasAllocation`). `CustodyInv` is their conjunction
with the types, box by box (`BoxInv`). Every action touches one box in one of
five ways, each a lemma: nothing (`BoxUntouched`), a claim (`BoxClaimed`), a
marking of allocation and row together (`BoxMarked`), a loading (`BoxLoaded`), a
move of a shipment's box (`BoxMovedOn`). `ShippedOnce` then needs only that the
row a receipt commits belongs to a consolidation and the row a dispatch commits
to the shipment.

`LooseCargoStageProofs` goes on from there, under the same assumptions:

- `ConsolidationStagesHold` and `BoxesFrozenHolds`: the status of a consolidation says
  where its boxes are, and a released one gets no box;
- `ShipmentMilestonesHold`: a shipment is neither ahead of its boxes nor behind them;
- `RouteAgreementHolds`: a loaded box and its shipment share region and origin;
- `ImplementsCustodyHolds`: `Spec => ImplementsCustody`, the whole refinement.

The argument. `StageInv` and `MilestoneInv` say for each status which states the boxes
may be in and which one some box must be in; the "some" is what keeps a box set from
becoming empty behind a status. A consolidation moves in eight ways
(`ConsolidationMoves`, `TransferTakes`), each with its effect on the states. For the
routes, a box is loaded only from a ready consolidation, which keeps its route, and a
shipment keeps its route once it has cargo. For the refinement, `CustodyRead` shows
that place and holder are what the allocations say, since by `CustodyInv` at most one
claim of a box is live; then each service call is shown to move every box by a step of
`BoxCustody` or to leave it.

`SyncEngineProofs` proves, for every number of workers, occurrences, requests,
pages, slices, waits, retries, faults and switches:

- `TypeCorrect`: `Spec => []TypeOK`;
- `SlicesStartOnce`: `Spec => SliceStartedOnce`, whatever `Mishaps` allows;
- `RunsHoldLock` and `WritersExclude`: `Spec => []RunHoldsLock` and
  `Spec => []SingleWriter`, provided `slow_commit` is not in `Mishaps`. The proviso
  is needed: TLC finds a counterexample with it, because the code does not look at
  the lease again inside the page transaction;
- `PagesCountedHolds`: `Spec => []PagesCounted`, whatever `Mishaps` allows;
- `PagesKeepOrder`: `Spec => PagesInOrder`, under the proviso of `RunsHoldLock`;
- `EndedNotExecutingHolds`: `Spec => []EndedNotExecuting`, provided `late_report` is not
  in `Mishaps`. Here too TLC finds a counterexample without the proviso.

Assumptions: `SyncAssumption` (occurrences and manual keys are disjoint, the bounds
are natural numbers).

The argument. `RunMoves` reduces all actions to five moves of a run: kept, ended,
created or deleted, yielded, started. `SlicesBehind` (a waiting run is ahead of every
slice it has started) is checked against these five. For the lock, `LeaseInv` has
five parts. `SingleWriter` alone is not inductive, since a writer could be joined by
a worker that executes the same run (`OneTaskPerRun`) or by one that takes the lock;
the latter needs that a writer's lease is live (`WriterHoldsLease`) and that a free
job has no live lease (`FreeJobUnleased`). That nobody starts a run a second worker
still believes in follows from `TaskRunTaken`: such a run neither waits nor is
missing. `RunningLocked` is `RunHoldsLock` with the job's status. Steps fall into
three classes, each with a lemma: the job is left alone (`LeaseKept`), the lock is
given back or recovered (`LeaseReleased`), the lock is taken (`LeaseTaken`);
`LeaseSwitched` is the operator and the clock.

The counters need no lease. `TaskPages` says that a worker counts in memory what is
committed, unless its page was rolled back, in which case it reads the run again; it
holds because one task at a time executes a run (`TakenInv`). The order of pages does
need it: `CursorKnown` says that the worker whose run holds the lock knows the cursor,
since nobody else moves it. For ended occurrences, `ClaimsInv` says of each occurrence
that at most one task has claimed its dispatch (`OneHolder`), and that while the
dispatch is queued that task has only its report left and nobody was given the slice
the run waits for (`HeldApart`), because no task or message is ahead of the run
(`Before`) and nothing was sent for an unused occurrence (`NotYetSent`). Then whatever
ends a dispatch, a report, a recovery, a refusal or a reconciliation, ends it behind
nobody's back.

`PilotExecutionProofs` proves, for every number of requests, workers, plans,
environments, slots, faults and operators' actions:

- `TypeCorrect`: `Spec => []TypeOK`;
- `CommandStartedOnce`, `EnvironmentsExclusive` and `SuccessesReal`: the invariants
  `CommandOnce`, `EnvironmentExclusive` and `SuccessIsReal`;
- `VerdictsFinal`: `Spec => VerdictFinal`.

Assumptions: `RunnerAssumption`, `PilotAssumption` (the kinds of sources are disjoint, every
source has an environment, `None` is none of them, bounds are natural numbers). The
sets of keys and environments may be infinite: that the holders of slots are finitely
many is part of the invariant.

The argument. The invariant has a half for each program. `RunnerInv`: every row is
sound for its phase (started at most once, and not before it was claimed; a
success only after exit zero), who is between `TakeLock` and the end holds the lock
of its environment (`LocksHeld`), who is between `TakeSlot` and the end holds a slot,
and the free slots are what those leave (`SlotsCounted`, by the cardinality of the
slot holders). `ControlledRunnerProofs` shows
that each call of the runner preserves it. `HubInv`: requests, deliveries and
messages point to rows that exist, and an answer "succeeded" in the memory of a
worker is backed by an exit of zero. A success cannot be taken back by a restart,
since a restart leaves `exit` alone. Steps of the hub fall into few kinds, each with a
lemma: an execution row moves (`ExecMove`), a delivery moves (`DeliveryKeeps`), the
runner moves.

`PaymentsProofs` proves, for every set of sources, requests, batches, lines and keys
and all amounts:

- `TypeCorrect`: `Spec => []TypeOK`;
- `RequestsPaidAsApproved`: `Spec => []PaidAsApproved`;
- `DepositsBackedHolds`: `Spec => []DepositsBacked`;
- `NeverBeyondDueHolds`: `Spec => NeverBeyondDue`.

Assumption: `PaymentsAssumption` (shape of the constants: the sources are disjoint,
a single request has one line, lines of batches are not for orders). The invariant
adds that the payment of a line is for the source of the line (`LinesPaySource`) and
that deductions come from payments on orders (`DeductedFromDeposits`): a batch can be
reversed without a look at deductions only because none of its lines is a deposit.
`DepositsCovered` bounds what is used of a payment by its amount. `NeverBeyondDue` is
an action property, proved from `Inv` action by action: submission, payment by hand and
deduction are what the check of the remaining amount left room for
(`FitsWithinDue`), a confirmed line turns its own reservation into a payment
(`PromisesApart`), and every reversal or refusal only shrinks the three sums.

Model-checked only. The liveness properties `OccurrenceEnds`, `ContinuationResumes`,
`LostRunReconciled` and `EveryExecutionEnds`: the prover has no rule for fairness and
`ENABLED`. The properties of the four findings are false and their runs show it; of
`PackedMatchesFrozen` the proviso `KeepsLines` says when it holds. What a recursive
definition computes for every input is beyond the prover too, and no module with a
theorem needs one.

## 5. Plan

In order of importance.

1. `QuantitySums`, `PackingFulfillment`, `BoxConsumption`, `LooseCargoConsolidation`,
   `LooseCargoShipment`, `BoxCustody` and their proofs: done.
2. `SyncEngine`, `SyncEngineProofs`: done.
3. `ControlledRunner`, `PilotExecution` and their proofs: done.
4. `Payments`, `PaymentsProofs`: done.
5. `IdempotentCommand`: events keyed by tenant and key, request hash, expected
   version, lost replies and concurrent creation; abstractly, a command takes
   effect at most once and its replay answers what the first call answered.
6. `SyncLease`: what lock token and lease promise, one owner per job that moves
   only through a free or an expired lock, with `SyncEngine` as its refinement;
   the capacity lanes between jobs.
7. `ControlledFile`, `ReleaseLease`, workflows, RPA tasks, recovery drills, other
   background jobs.
8. Proofs: the safety properties of the passing runs and the refinement of
   `BoxCustody` are done (section 4). Left: the refinement of `SyncLease`, from
   `LeaseInv`, and the theorems of the modules above as they are written.

**Not modelled.** The repository has some two hundred thousand lines of
implementation, and most of them keep no state a specification could be about: list
and detail views, serializers, filters and permissions, the readonly connectors
that parse answers of the platforms, admin pages, reports, migrations, and the Vue
and mini-program clients. The components with a protocol of their own that are
still missing are those of the plan; all others are listed in PROJECT.json with the
reason. The part of the code this project covers is therefore small by lines; it is
the part where actors, failures or long histories meet.
