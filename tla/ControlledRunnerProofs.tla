----------------------- MODULE ControlledRunnerProofs -----------------------
(* What holds of the runner whoever calls it: a command is started at most   *)
(* once, the commands of one environment exclude each other, and slots are   *)
(* neither lost nor made up.                                                 *)
EXTENDS ControlledRunner, FiniteSetTheorems, TLAPS

-----------------------------------------------------------------------------
(* The inductive invariant. *)

\* Phases that hold the lock of the environment, and a slot.
Holding == {"locked", "executing", "ended", "recorded"}
Slotted == Holding \cup {"slotted"}

\* The rows the store can hold: a command was started before it has an exit
\* code, and only an exit code of zero is shown as a success.
SoundOperation ==
    {r \in Operation :
        /\ r.starts \in {0, 1}
        /\ r.status = "none" => r.phase = "idle" /\ r.starts = 0
        /\ r.phase \in {"admitting", "slotted", "locked"} => r.starts = 0
        /\ r.phase \in Holding \ {"locked"} => r.starts = 1
        /\ r.starts = 0 \/ r.phase = "executing" => r.exit = "none"
        /\ r.phase # "idle" => r.env \in Env
        /\ r.status = "succeeded" => r.exit = "zero"}

Holders == {k \in Key : op[k].phase \in Holding}
SlotHolders == {k \in Key : op[k].phase \in Slotted}

LocksHeld == \A k \in Holders : envLock[op[k].env] = k

SlotsCounted ==
    /\ IsFiniteSet(SlotHolders)
    /\ slots + Cardinality(SlotHolders) = MaxConcurrent

RunnerInv ==
    /\ op \in [Key -> SoundOperation]
    /\ envLock \in [Env -> Key \cup {None}]
    /\ slots \in Nat
    /\ auditBroken \in BOOLEAN
    /\ faults \in 0..MaxFaults
    /\ LocksHeld
    /\ SlotsCounted

\* What may happen to the runner: a POST arrives, an operation goes on, the
\* process is restarted, or the fault is elsewhere.
RunnerMove ==
    \/ \E k \in Key, e \in Env : Claim(k, e)
    \/ \E k \in Key : OperationStep(k)
    \/ Restart
    \/ Fault /\ UNCHANGED <<op, envLock, slots, auditBroken>>
    \/ UNCHANGED runnerVars

-----------------------------------------------------------------------------
(* Rows. *)

LEMMA FreshRow == NoOperation \in SoundOperation
BY DEF NoOperation, SoundOperation, Operation, OpStatus, Phase, Holding

\* A row is replaced by a row that keeps an exit code of zero.
Replaced(k, r) ==
    /\ op' = [op EXCEPT ![k] = r]
    /\ op[k].exit = "zero" => r.exit = "zero"

\* Claimed, and not started.
Opened == {"admitting", "slotted", "locked"}

LEMMA ClaimRow ==
    ASSUME op \in [Key -> SoundOperation], NEW k \in Key, NEW e \in Env, Claim(k, e)
    PROVE  \E r \in SoundOperation : Replaced(k, r) /\ r.phase = "admitting"
<1>1. PICK t \in SoundOperation : t = op[k] /\ t.status = "none"
  BY DEF Claim
<1>2. [t EXCEPT !.status = "accepted", !.phase = "admitting", !.env = e] \in SoundOperation
  BY <1>1 DEF SoundOperation, Operation, OpStatus, Phase, Holding
<1>3. PICK r : r = [t EXCEPT !.status = "accepted", !.phase = "admitting", !.env = e]
  OBVIOUS
<1>4. op' = [op EXCEPT ![k] = r]
  BY <1>1, <1>3 DEF Claim
<1>5. r.exit = t.exit /\ r.phase = "admitting"
  BY <1>1, <1>3 DEF SoundOperation, Operation
<1> QED
  BY <1>1, <1>2, <1>3, <1>4, <1>5 DEF Replaced

\* Such a row is closed.
LEMMA RefusedRow ==
    ASSUME op \in [Key -> SoundOperation], NEW k \in Key, op[k].phase \in Opened,
           op' = [op EXCEPT ![k].status = "failed", ![k].phase = "idle"]
    PROVE  \E r \in SoundOperation : Replaced(k, r) /\ r.phase = "idle"
<1>1. PICK t \in SoundOperation : t = op[k] /\ t.phase \in Opened
  OBVIOUS
<1>2. [t EXCEPT !.status = "failed", !.phase = "idle"] \in SoundOperation
  BY <1>1 DEF SoundOperation, Operation, OpStatus, Phase, Holding, Opened
<1>3. PICK r : r = [t EXCEPT !.status = "failed", !.phase = "idle"]
  OBVIOUS
<1>4. op' = [op EXCEPT ![k] = r]
  BY <1>1, <1>3
<1>5. r.exit = t.exit /\ r.phase = "idle"
  BY <1>1, <1>3 DEF SoundOperation, Operation
<1> QED
  BY <1>1, <1>2, <1>3, <1>4, <1>5 DEF Replaced

LEMMA SlotRow ==
    ASSUME op \in [Key -> SoundOperation], NEW k \in Key, TakeSlot(k)
    PROVE  \E r \in SoundOperation : Replaced(k, r) /\ r.phase = "slotted" /\ r.env = op[k].env
<1>1. PICK t \in SoundOperation : t = op[k] /\ t.phase = "admitting"
  BY DEF TakeSlot
<1>2. PICK r : r = [t EXCEPT !.phase = "slotted"]
  OBVIOUS
<1>3. r \in SoundOperation /\ r.exit = t.exit /\ r.phase = "slotted" /\ r.env = t.env
  BY <1>1, <1>2 DEF SoundOperation, Operation, OpStatus, Phase, Holding
<1>4. op' = [op EXCEPT ![k] = r]
  BY <1>1, <1>2 DEF TakeSlot
<1> QED
  BY <1>1, <1>3, <1>4 DEF Replaced

LEMMA LockRow ==
    ASSUME op \in [Key -> SoundOperation], NEW k \in Key, TakeLock(k)
    PROVE  \E r \in SoundOperation : Replaced(k, r) /\ r.phase = "locked" /\ r.env = op[k].env
<1>1. PICK t \in SoundOperation : t = op[k] /\ t.phase = "slotted"
  BY DEF TakeLock
<1>2. PICK r : r = [t EXCEPT !.status = "running", !.phase = "locked"]
  OBVIOUS
<1>3. r \in SoundOperation /\ r.exit = t.exit /\ r.phase = "locked" /\ r.env = t.env
  BY <1>1, <1>2 DEF SoundOperation, Operation, OpStatus, Phase, Holding
<1>4. op' = [op EXCEPT ![k] = r]
  BY <1>1, <1>2 DEF TakeLock
<1> QED
  BY <1>1, <1>3, <1>4 DEF Replaced

LEMMA StartRow ==
    ASSUME op \in [Key -> SoundOperation], NEW k \in Key, Start(k)
    PROVE  \E r \in SoundOperation : Replaced(k, r) /\ r.phase \in Holding /\ r.env = op[k].env
<1>1. PICK t \in SoundOperation : t = op[k] /\ t.phase = "locked"
  BY DEF Start
<1>2. t.starts = 0 /\ t.starts + 1 = 1
  BY <1>1 DEF SoundOperation
<1>3. PICK r : r = [t EXCEPT !.phase = "executing", !.starts = 1]
  OBVIOUS
<1>4. r \in SoundOperation
  BY <1>1, <1>3 DEF SoundOperation, Operation, OpStatus, Phase, Holding
<1>5. op' = [op EXCEPT ![k] = r]
  BY <1>1, <1>2, <1>3 DEF Start
<1>6. r.exit = t.exit /\ r.phase = "executing" /\ r.env = t.env
  BY <1>1, <1>3 DEF SoundOperation, Operation
<1> QED
  BY <1>1, <1>4, <1>5, <1>6 DEF Replaced, Holding

LEMMA CommandRow ==
    ASSUME op \in [Key -> SoundOperation], NEW k \in Key, CommandEnds(k) \/ Record(k)
    PROVE  \E r \in SoundOperation : Replaced(k, r) /\ r.phase \in Holding /\ r.env = op[k].env
<1>1. CASE CommandEnds(k)
  <2>1. PICK t \in SoundOperation : t = op[k] /\ t.phase = "executing"
    BY <1>1 DEF CommandEnds
  <2>2. PICK x \in {"zero", "other"} : op' = [op EXCEPT ![k].phase = "ended", ![k].exit = x]
    BY <1>1 DEF CommandEnds
  <2>3. PICK r : r = [t EXCEPT !.phase = "ended", !.exit = x]
    OBVIOUS
  <2>4. r \in SoundOperation
    BY <2>1, <2>2, <2>3 DEF SoundOperation, Operation, OpStatus, Phase, Holding
  <2>5. op' = [op EXCEPT ![k] = r]
    BY <2>1, <2>2, <2>3
  <2>6. t.exit = "none" /\ r.phase = "ended" /\ r.env = t.env
    BY <2>1, <2>3 DEF SoundOperation, Operation
  <2> QED
    BY <2>1, <2>4, <2>5, <2>6 DEF Replaced, Holding
<1>2. CASE Record(k)
  <2>1. PICK t \in SoundOperation : t = op[k] /\ t.phase = "ended"
    BY <1>2 DEF Record
  <2>2. PICK st \in {"succeeded", "failed"} :
            /\ st = "succeeded" => t.exit = "zero"
            /\ op' = [op EXCEPT ![k].status = st, ![k].phase = "recorded"]
    BY <1>2, <2>1 DEF Record
  <2>3. PICK r : r = [t EXCEPT !.status = st, !.phase = "recorded"]
    OBVIOUS
  <2>4. r \in SoundOperation
    BY <2>1, <2>2, <2>3 DEF SoundOperation, Operation, OpStatus, Phase, Holding
  <2>5. op' = [op EXCEPT ![k] = r]
    BY <2>1, <2>2, <2>3
  <2>6. r.exit = t.exit /\ r.phase = "recorded" /\ r.env = t.env
    BY <2>1, <2>3 DEF SoundOperation, Operation
  <2> QED
    BY <2>1, <2>4, <2>5, <2>6 DEF Replaced, Holding
<1> QED
  BY <1>1, <1>2

LEMMA AuditRow ==
    ASSUME op \in [Key -> SoundOperation], NEW k \in Key, AuditEnd(k)
    PROVE  \E r \in SoundOperation : Replaced(k, r) /\ r.phase = "idle"
<1>1. PICK t \in SoundOperation : t = op[k] /\ t.phase = "recorded"
  BY DEF AuditEnd
<1>2. PICK r : /\ r = [t EXCEPT !.phase = "idle"] \/ r = [t EXCEPT !.phase = "idle", !.status = "failed"]
               /\ op' = [op EXCEPT ![k] = r]
  BY <1>1 DEF AuditEnd
<1>3. r \in SoundOperation /\ r.exit = t.exit /\ r.phase = "idle"
  BY <1>1, <1>2 DEF SoundOperation, Operation, OpStatus, Phase, Holding
<1> QED
  BY <1>1, <1>2, <1>3 DEF Replaced

-----------------------------------------------------------------------------
(* Locks and slots, as rows take and leave them. *)

LEMMA FaultCounted ==
    ASSUME RunnerInv, Fault \/ UNCHANGED faults
    PROVE  faults' \in 0..MaxFaults
<1>1. faults \in 0..MaxFaults
  BY DEF RunnerInv
<1> QED
  BY <1>1, RunnerAssumption DEF Fault

LEMMA RowMoves ==
    ASSUME RunnerInv, NEW k \in Key, NEW r \in SoundOperation, Replaced(k, r)
    PROVE  /\ op' \in [Key -> SoundOperation]
           /\ op'[k] = r
           /\ \A l \in Key : l # k => op'[l] = op[l]
BY DEF RunnerInv, Replaced

\* Nobody gets a slot or gives one back.
LEMMA SlotKept ==
    ASSUME RunnerInv, NEW k \in Key, NEW r \in SoundOperation, Replaced(k, r),
           op[k].phase \in Slotted <=> r.phase \in Slotted, slots' = slots
    PROVE  SlotsCounted' /\ slots' \in Nat
<1>1. SlotHolders' = SlotHolders
  BY RowMoves DEF SlotHolders
<1> QED
  BY <1>1 DEF RunnerInv, SlotsCounted

LEMMA SlotTaken ==
    ASSUME RunnerInv, NEW k \in Key, NEW r \in SoundOperation, Replaced(k, r),
           op[k].phase \notin Slotted, r.phase \in Slotted, slots > 0, slots' = slots - 1
    PROVE  SlotsCounted' /\ slots' \in Nat
<1>1. k \notin SlotHolders /\ SlotHolders' = SlotHolders \cup {k}
  BY RowMoves DEF SlotHolders
<1>2. IsFiniteSet(SlotHolders) /\ slots + Cardinality(SlotHolders) = MaxConcurrent /\ slots \in Nat
  BY DEF RunnerInv, SlotsCounted
<1>3. IsFiniteSet(SlotHolders') /\ Cardinality(SlotHolders') = Cardinality(SlotHolders) + 1
  BY ONLY <1>1, <1>2, FS_AddElement
<1>4. Cardinality(SlotHolders) \in Nat
  BY <1>2, FS_CardinalityType
<1> QED
  BY <1>2, <1>3, <1>4, RunnerAssumption DEF SlotsCounted

LEMMA SlotGiven ==
    ASSUME RunnerInv, NEW k \in Key, NEW r \in SoundOperation, Replaced(k, r),
           op[k].phase \in Slotted, r.phase \notin Slotted, slots' = slots + 1
    PROVE  SlotsCounted' /\ slots' \in Nat
<1>1. k \in SlotHolders /\ SlotHolders' = SlotHolders \ {k}
  BY RowMoves DEF SlotHolders
<1>2. IsFiniteSet(SlotHolders) /\ slots + Cardinality(SlotHolders) = MaxConcurrent /\ slots \in Nat
  BY DEF RunnerInv, SlotsCounted
<1>3. IsFiniteSet(SlotHolders') /\ Cardinality(SlotHolders') = Cardinality(SlotHolders) - 1
  BY ONLY <1>1, <1>2, FS_RemoveElement
<1>4. Cardinality(SlotHolders) \in Nat
  BY <1>2, FS_CardinalityType
<1> QED
  BY <1>2, <1>3, <1>4, RunnerAssumption DEF SlotsCounted

\* Nobody gets a lock or gives one back.
LEMMA LockKept ==
    ASSUME RunnerInv, NEW k \in Key, NEW r \in SoundOperation, Replaced(k, r),
           op[k].phase \in Holding <=> r.phase \in Holding,
           r.phase \in Holding => r.env = op[k].env, envLock' = envLock
    PROVE  LocksHeld' /\ envLock' \in [Env -> Key \cup {None}]
<1>1. Holders' = Holders /\ \A l \in Holders : op'[l].env = op[l].env
  BY RowMoves DEF Holders
<1> QED
  BY <1>1 DEF RunnerInv, LocksHeld

\* Holders of other environments do not notice.
LEMMA HoldersApart ==
    ASSUME RunnerInv, NEW l \in Holders
    PROVE  l \in Key /\ op[l].env \in Env /\ envLock[op[l].env] = l /\ l # None
<1>1. l \in Key /\ op[l] \in SoundOperation /\ op[l].phase \in Holding
  BY DEF Holders, RunnerInv
<1>2. op[l].env \in Env
  BY <1>1 DEF SoundOperation, Holding
<1> QED
  BY <1>1, <1>2, RunnerAssumption DEF RunnerInv, LocksHeld

LEMMA LockTaken ==
    ASSUME RunnerInv, NEW k \in Key, NEW r \in SoundOperation, Replaced(k, r),
           op[k].phase \notin Holding, r.phase \in Holding, r.env = op[k].env,
           envLock[op[k].env] = None, envLock' = [envLock EXCEPT ![op[k].env] = k]
    PROVE  LocksHeld' /\ envLock' \in [Env -> Key \cup {None}]
<1>1. PICK e \in Env : e = op[k].env
  BY DEF SoundOperation, Holding
<1>2. envLock[e] = None /\ envLock' = [envLock EXCEPT ![e] = k] /\ envLock \in [Env -> Key \cup {None}]
  BY <1>1 DEF RunnerInv
<1>3. k \notin Holders /\ Holders' = Holders \cup {k}
  BY RowMoves DEF Holders
<1>4. \A l \in Holders : op[l].env \in Env /\ op[l].env # e /\ op'[l] = op[l] /\ envLock[op[l].env] = l
  BY <1>2, <1>3, HoldersApart, RowMoves
<1>5. op'[k].env = e
  BY <1>1, RowMoves
<1> QED
  BY <1>1, <1>2, <1>3, <1>4, <1>5 DEF LocksHeld

LEMMA LockGiven ==
    ASSUME RunnerInv, NEW k \in Key, NEW r \in SoundOperation, Replaced(k, r),
           op[k].phase \in Holding, r.phase \notin Holding,
           envLock' = [envLock EXCEPT ![op[k].env] = None]
    PROVE  LocksHeld' /\ envLock' \in [Env -> Key \cup {None}]
<1>1. k \in Holders /\ Holders' = Holders \ {k}
  BY RowMoves DEF Holders
<1>2. PICK e \in Env : e = op[k].env /\ envLock[e] = k
  BY <1>1, HoldersApart
<1>3. envLock' = [envLock EXCEPT ![e] = None] /\ envLock \in [Env -> Key \cup {None}]
  BY <1>2 DEF RunnerInv
<1>4. \A l \in Holders \ {k} : op[l].env \in Env /\ op[l].env # e /\ op'[l] = op[l] /\ envLock[op[l].env] = l
  BY <1>2, HoldersApart, RowMoves
<1> QED
  BY <1>1, <1>2, <1>3, <1>4 DEF LocksHeld

\* A row that has the lock changes and keeps what it holds.
LEMMA StaysInside ==
    ASSUME RunnerInv, NEW k \in Key, NEW r \in SoundOperation, Replaced(k, r),
           op[k].phase \in Holding, r.phase \in Holding, r.env = op[k].env,
           UNCHANGED <<envLock, slots, auditBroken, faults>>
    PROVE  RunnerInv'
<1>1. SlotsCounted' /\ slots' \in Nat
  BY SlotKept DEF Slotted
<1>2. LocksHeld' /\ envLock' \in [Env -> Key \cup {None}]
  BY LockKept
<1> QED
  BY <1>1, <1>2, RowMoves DEF RunnerInv

\* It gives back lock and slot.
LEMMA Leaves ==
    ASSUME RunnerInv, NEW k \in Key, NEW r \in SoundOperation, Replaced(k, r),
           op[k].phase \in Holding, r.phase = "idle", slots' = slots + 1,
           envLock' = [envLock EXCEPT ![op[k].env] = None],
           auditBroken' \in BOOLEAN, faults' \in 0..MaxFaults
    PROVE  RunnerInv'
<1>1. SlotsCounted' /\ slots' \in Nat
  BY SlotGiven DEF Slotted, Holding
<1>2. LocksHeld' /\ envLock' \in [Env -> Key \cup {None}]
  BY LockGiven DEF Holding
<1> QED
  BY <1>1, <1>2, RowMoves DEF RunnerInv

\* What the ledger may do to the service.
LEMMA LedgerTyped ==
    ASSUME RunnerInv, auditBroken' \in {auditBroken, TRUE}, Fault \/ UNCHANGED faults
    PROVE  auditBroken' \in BOOLEAN /\ faults' \in 0..MaxFaults
BY FaultCounted DEF RunnerInv

\* Every step before the start, and the steps back.
LEMMA AdmissionKeeps ==
    ASSUME RunnerInv, NEW k \in Key,
           TakeSlot(k) \/ Reject(k) \/ TakeLock(k) \/ Start(k) \/ StartFails(k)
    PROVE  RunnerInv'
<1>0. op \in [Key -> SoundOperation] /\ Slotted = {"slotted", "locked", "executing", "ended", "recorded"}
  BY DEF RunnerInv, Slotted, Holding
<1>1. CASE TakeSlot(k)
  <2>1. PICK r \in SoundOperation : Replaced(k, r) /\ r.phase = "slotted" /\ r.env = op[k].env
    BY <1>0, <1>1, SlotRow
  <2>2. op[k].phase \notin Slotted /\ op[k].phase \notin Holding
    BY <1>0, <1>1 DEF TakeSlot, Holding
  <2>3. r.phase \in Slotted /\ r.phase \notin Holding
    BY <1>0, <2>1 DEF Holding
  <2>4. SlotsCounted' /\ slots' \in Nat
    BY <1>1, <2>1, <2>2, <2>3, SlotTaken DEF TakeSlot
  <2>5. LocksHeld' /\ envLock' \in [Env -> Key \cup {None}]
    BY <1>1, <2>1, <2>2, <2>3, LockKept DEF TakeSlot
  <2>6. auditBroken' \in BOOLEAN /\ faults' \in 0..MaxFaults
    BY <1>1 DEF TakeSlot, RunnerInv
  <2> QED
    BY <2>1, <2>4, <2>5, <2>6, RowMoves DEF RunnerInv
<1>2. CASE Reject(k)
  <2>1. PICK r \in SoundOperation : Replaced(k, r) /\ r.phase = "idle"
    BY <1>0, <1>2, RefusedRow DEF Reject, Opened
  <2>2. op[k].phase \notin Holding
    BY <1>2 DEF Reject, Holding
  <2>3. r.phase \notin Slotted /\ r.phase \notin Holding
    BY <1>0, <2>1 DEF Holding
  <2>4. SlotsCounted' /\ slots' \in Nat
    <3>1. CASE op[k].phase = "slotted"
      BY <1>0, <1>2, <2>1, <2>3, <3>1, SlotGiven DEF Reject
    <3>2. CASE op[k].phase = "admitting"
      BY <1>0, <1>2, <2>1, <2>3, <3>2, SlotKept DEF Reject
    <3> QED
      BY <1>2, <3>1, <3>2 DEF Reject
  <2>5. LocksHeld' /\ envLock' \in [Env -> Key \cup {None}]
    BY <1>2, <2>1, <2>2, <2>3, LockKept DEF Reject
  <2>6. auditBroken' \in BOOLEAN /\ faults' \in 0..MaxFaults
    BY <1>2, LedgerTyped DEF Reject, Audited, AuditLost
  <2> QED
    BY <2>1, <2>4, <2>5, <2>6, RowMoves DEF RunnerInv
<1>3. CASE TakeLock(k)
  <2>1. PICK r \in SoundOperation : Replaced(k, r) /\ r.phase = "locked" /\ r.env = op[k].env
    BY <1>0, <1>3, LockRow
  <2>2. op[k].phase \in Slotted /\ op[k].phase \notin Holding
    BY <1>0, <1>3 DEF TakeLock, Holding
  <2>3. r.phase \in Slotted /\ r.phase \in Holding
    BY <1>0, <2>1 DEF Holding
  <2>4. SlotsCounted' /\ slots' \in Nat
    BY <1>3, <2>1, <2>2, <2>3, SlotKept DEF TakeLock
  <2>5. LocksHeld' /\ envLock' \in [Env -> Key \cup {None}]
    BY <1>3, <2>1, <2>2, <2>3, LockTaken DEF TakeLock
  <2>6. auditBroken' \in BOOLEAN /\ faults' \in 0..MaxFaults
    BY <1>3 DEF TakeLock, RunnerInv
  <2> QED
    BY <2>1, <2>4, <2>5, <2>6, RowMoves DEF RunnerInv
<1>4. CASE Start(k)
  <2>1. PICK r \in SoundOperation : Replaced(k, r) /\ r.phase \in Holding /\ r.env = op[k].env
    BY <1>0, <1>4, StartRow
  <2>2. op[k].phase \in Holding
    BY <1>4 DEF Start, Holding
  <2> QED
    BY <1>4, <2>1, <2>2, StaysInside DEF Start, Audited
<1>5. CASE StartFails(k)
  <2>1. PICK r \in SoundOperation : Replaced(k, r) /\ r.phase = "idle"
    BY <1>0, <1>5, RefusedRow DEF StartFails, Opened
  <2> QED
    BY <1>5, <2>1, Leaves, LedgerTyped DEF StartFails, Holding
<1> QED
  BY <1>1, <1>2, <1>3, <1>4, <1>5

LEMMA AuditEndKeeps ==
    ASSUME RunnerInv, NEW k \in Key, AuditEnd(k)
    PROVE  RunnerInv'
<1>1. PICK r \in SoundOperation : Replaced(k, r) /\ r.phase = "idle"
  BY AuditRow DEF RunnerInv
<1>2. op[k].phase \in Holding
  BY DEF AuditEnd, Holding
<1>3. auditBroken' \in {auditBroken, TRUE} /\ (Fault \/ UNCHANGED faults)
  BY DEF AuditEnd, Audited, AuditLost
<1> QED
  BY <1>1, <1>2, <1>3, Leaves, LedgerTyped DEF AuditEnd

LEMMA Restarted ==
    ASSUME RunnerInv, Restart
    PROVE  /\ RunnerInv'
           /\ \A k \in Key : op'[k].exit = op[k].exit
<1>1. \A k \in Key : /\ op'[k] \in SoundOperation
                     /\ op'[k].phase = "idle"
                     /\ op'[k].exit = op[k].exit
  <2> SUFFICES ASSUME NEW k \in Key
               PROVE  /\ op'[k] \in SoundOperation
                      /\ op'[k].phase = "idle"
                      /\ op'[k].exit = op[k].exit
    OBVIOUS
  <2>1. PICK t \in SoundOperation, st \in OpStatus :
            /\ t = op[k]
            /\ st = IF t.status = "running" THEN "failed" ELSE t.status
    BY DEF RunnerInv, SoundOperation, Operation, OpStatus
  <2>2. op'[k] = [t EXCEPT !.phase = "idle", !.status = st]
    BY <2>1 DEF Restart
  <2>3. PICK r : r = [t EXCEPT !.phase = "idle", !.status = st]
    OBVIOUS
  <2>4. r.phase = "idle" /\ r.exit = t.exit
    BY <2>1, <2>3 DEF SoundOperation, Operation
  <2>5. r \in SoundOperation
    <3>1. CASE t.status = "running"
      <4>1. r = [t EXCEPT !.phase = "idle", !.status = "failed"]
        BY <2>1, <2>3, <3>1
      <4> QED
        BY <2>1, <3>1, <4>1 DEF SoundOperation, Operation, OpStatus, Phase, Holding
    <3>2. CASE t.status # "running"
      <4>1. t \in Operation /\ r = [t EXCEPT !.phase = "idle"]
        BY <2>1, <2>3, <3>2 DEF SoundOperation, Operation
      <4>2. /\ r \in Operation /\ r.phase = "idle" /\ r.status = t.status
            /\ r.exit = t.exit /\ r.starts = t.starts
        BY <4>1 DEF Operation, Phase
      <4> QED
        BY <2>1, <4>2 DEF SoundOperation, Holding
    <3> QED
      BY <3>1, <3>2
  <2> QED
    BY <2>1, <2>2, <2>3, <2>4, <2>5
<1>2. op' \in [Key -> SoundOperation]
  BY <1>1 DEF Restart
<1>3. Holders' = {} /\ SlotHolders' = {}
  BY <1>1 DEF Holders, SlotHolders, Holding, Slotted
<1>4. envLock' \in [Env -> Key \cup {None}] /\ slots' = MaxConcurrent /\ auditBroken' = FALSE
  BY DEF Restart
<1>5. faults' \in 0..MaxFaults
  BY FaultCounted DEF Restart
<1>6. LocksHeld' /\ SlotsCounted'
  BY <1>3, <1>4, FS_EmptySet, RunnerAssumption DEF LocksHeld, SlotsCounted
<1> QED
  BY <1>1, <1>2, <1>4, <1>5, <1>6, RunnerAssumption DEF RunnerInv

-----------------------------------------------------------------------------
(* The invariant holds at first, is kept by every move, and says enough. *)

LEMMA RunnerStarts == RunnerInit => RunnerInv
<1> SUFFICES ASSUME RunnerInit PROVE RunnerInv
  OBVIOUS
<1>1. op \in [Key -> SoundOperation]
  BY FreshRow DEF RunnerInit
<1>2. Holders = {} /\ SlotHolders = {}
  BY DEF RunnerInit, Holders, SlotHolders, NoOperation, Holding, Slotted
<1>3. envLock \in [Env -> Key \cup {None}] /\ slots \in Nat /\ auditBroken \in BOOLEAN
  BY RunnerAssumption DEF RunnerInit
<1>4. faults \in 0..MaxFaults
  BY RunnerAssumption DEF RunnerInit
<1>5. LocksHeld /\ SlotsCounted
  BY <1>2, FS_EmptySet, RunnerAssumption DEF RunnerInit, LocksHeld, SlotsCounted
<1> QED
  BY <1>1, <1>3, <1>4, <1>5 DEF RunnerInv

LEMMA RunnerKept ==
    ASSUME RunnerInv, RunnerMove
    PROVE  RunnerInv'
<1>1. ASSUME NEW k \in Key, NEW e \in Env, Claim(k, e) PROVE RunnerInv'
  <2>1. PICK r \in SoundOperation : Replaced(k, r) /\ r.phase = "admitting"
    BY <1>1, ClaimRow DEF RunnerInv
  <2>2. op[k].phase = "idle"
    BY <1>1 DEF Claim, RunnerInv, SoundOperation
  <2>3. SlotsCounted' /\ slots' \in Nat
    BY <1>1, <2>1, <2>2, SlotKept DEF Claim, Slotted, Holding
  <2>4. LocksHeld' /\ envLock' \in [Env -> Key \cup {None}]
    BY <1>1, <2>1, <2>2, LockKept DEF Claim, Holding
  <2> QED
    BY <1>1, <2>1, <2>3, <2>4, RowMoves DEF Claim, RunnerInv
<1>3. ASSUME NEW k \in Key, CommandEnds(k) \/ Record(k) PROVE RunnerInv'
  <2>1. PICK r \in SoundOperation : Replaced(k, r) /\ r.phase \in Holding /\ r.env = op[k].env
    BY <1>3, CommandRow DEF RunnerInv
  <2>2. op[k].phase \in Holding
    BY <1>3 DEF CommandEnds, Record, Holding
  <2>3. UNCHANGED <<envLock, slots, auditBroken, faults>>
    BY <1>3 DEF CommandEnds, Record
  <2> QED
    BY <2>1, <2>2, <2>3, StaysInside
<1>4. ASSUME Fault, UNCHANGED <<op, envLock, slots, auditBroken>> PROVE RunnerInv'
  <2>1. Holders' = Holders /\ SlotHolders' = SlotHolders
    BY <1>4 DEF Holders, SlotHolders
  <2>2. faults' \in 0..MaxFaults
    BY <1>4, FaultCounted
  <2> QED
    BY <1>4, <2>1, <2>2 DEF RunnerInv, LocksHeld, SlotsCounted
<1>5. ASSUME UNCHANGED runnerVars PROVE RunnerInv'
  <2>1. Holders' = Holders /\ SlotHolders' = SlotHolders
    BY <1>5 DEF Holders, SlotHolders, runnerVars
  <2> QED
    BY <1>5, <2>1 DEF RunnerInv, LocksHeld, SlotsCounted, runnerVars
<1> QED
  BY <1>1, <1>3, <1>4, <1>5, AdmissionKeeps, AuditEndKeeps, Restarted DEF RunnerMove, OperationStep

\* An exit code of zero is never taken back.
LEMMA ExitZeroStays ==
    ASSUME RunnerInv, RunnerMove, NEW k \in Key, op[k].exit = "zero"
    PROVE  op'[k].exit = "zero"
<1>1. ASSUME NEW l \in Key, NEW r \in SoundOperation, Replaced(l, r) PROVE op'[k].exit = "zero"
  BY <1>1 DEF Replaced, RunnerInv
<1>2. ASSUME NEW l \in Key, NEW e \in Env, Claim(l, e) PROVE op'[k].exit = "zero"
  BY <1>1, <1>2, ClaimRow DEF RunnerInv
<1>3. ASSUME NEW l \in Key, OperationStep(l) PROVE op'[k].exit = "zero"
  <2>1. op \in [Key -> SoundOperation]
    BY DEF RunnerInv
  <2>2. CASE Reject(l) \/ StartFails(l)
    BY <1>1, <2>1, <2>2, RefusedRow DEF Reject, StartFails, Opened
  <2>3. CASE TakeSlot(l) \/ TakeLock(l) \/ Start(l)
    BY <1>1, <2>1, <2>3, SlotRow, LockRow, StartRow
  <2>4. CASE CommandEnds(l) \/ Record(l) \/ AuditEnd(l)
    BY <1>1, <2>1, <2>4, CommandRow, AuditRow
  <2> QED
    BY <1>3, <2>2, <2>3, <2>4 DEF OperationStep
<1> QED
  BY <1>2, <1>3, Restarted DEF RunnerMove, runnerVars

LEMMA RunnerSays ==
    ASSUME RunnerInv
    PROVE  RunnerTypeOK /\ CommandOnce /\ EnvironmentExclusive
<1>1. slots \in 0..MaxConcurrent
  <2>1. Cardinality(SlotHolders) \in Nat
    BY FS_CardinalityType DEF RunnerInv, SlotsCounted
  <2> QED
    BY <2>1, RunnerAssumption DEF RunnerInv, SlotsCounted
<1>2. op \in [Key -> Operation]
  BY DEF RunnerInv, SoundOperation
<1>3. CommandOnce
  BY DEF RunnerInv, SoundOperation, CommandOnce
<1>4. EnvironmentExclusive
  BY DEF RunnerInv, LocksHeld, Holders, Holding, Executing, EnvironmentExclusive
<1> QED
  BY <1>1, <1>2, <1>3, <1>4 DEF RunnerInv, RunnerTypeOK
=============================================================================
