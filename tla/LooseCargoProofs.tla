-------------------------- MODULE LooseCargoProofs --------------------------
(***************************************************************************)
(* Machine-checked theorems about LooseCargoShipment, for every set of     *)
(* boxes, consolidations, shipments, sites and regions.                    *)
(***************************************************************************)
EXTENDS LooseCargoShipment, SequenceTheorems, TLAPS

-----------------------------------------------------------------------------
(* The ledger of one box. *)

RowState == {"RESERVED", "COMMITTED", "RELEASED"}

\* Setting the state of a row keeps a ledger a ledger of the same length and
\* touches that row's state only.
LEMMA RowUpdate ==
    ASSUME NEW s \in Seq(ConsumptionRow), NEW i, NEW st \in RowState
    PROVE  LET t == [s EXCEPT ![i].state = st]
           IN  /\ t \in Seq(ConsumptionRow)
               /\ DOMAIN t = DOMAIN s
               /\ \A j \in DOMAIN s : j # i => t[j] = s[j]
               /\ i \in DOMAIN s => t[i] = [consumer |-> s[i].consumer, state |-> st]
  <1> DEFINE t == [s EXCEPT ![i].state = st]
  <1>1. s \in [1..Len(s) -> ConsumptionRow] /\ Len(s) \in Nat /\ DOMAIN s = 1..Len(s)
    OBVIOUS
  <1>2. ASSUME i \in DOMAIN s
        PROVE  /\ t[i] = [consumer |-> s[i].consumer, state |-> st]
               /\ t[i] \in ConsumptionRow
    <2>1. s[i] \in ConsumptionRow
      BY <1>1, <1>2
    <2> QED
      BY <2>1, <1>2 DEF ConsumptionRow, RowState
  <1>3. DOMAIN t = DOMAIN s /\ \A j \in DOMAIN s : j # i => t[j] = s[j]
    OBVIOUS
  <1>4. t \in [1..Len(s) -> ConsumptionRow]
    BY <1>1, <1>2, <1>3
  <1>5. t \in Seq(ConsumptionRow)
    BY <1>1, <1>4, SeqDef
  <1> QED
    BY <1>2, <1>3, <1>5

\* Adding a row keeps the rows there are.
LEMMA RowAppend ==
    ASSUME NEW s \in Seq(ConsumptionRow), NEW k \in Consolidation \cup Shipment
    PROVE  LET r == [consumer |-> k, state |-> "RESERVED"]
           IN  /\ Append(s, r) \in Seq(ConsumptionRow)
               /\ DOMAIN Append(s, r) = DOMAIN s \cup {Len(s) + 1}
               /\ Len(s) + 1 \in Nat \ DOMAIN s
               /\ Append(s, r)[Len(s) + 1] = r
               /\ \A j \in DOMAIN s : Append(s, r)[j] = s[j]
  <1> DEFINE r == [consumer |-> k, state |-> "RESERVED"]
  <1>1. r \in ConsumptionRow
    BY DEF ConsumptionRow
  <1>2. Append(s, r) \in Seq(ConsumptionRow) /\ Len(Append(s, r)) = Len(s) + 1
    BY <1>1
  <1>3. DOMAIN Append(s, r) = 1..(Len(s) + 1) /\ DOMAIN s = 1..Len(s) /\ Len(s) \in Nat
    BY <1>2
  <1>4. \A j \in 1..(Len(s) + 1) : Append(s, r)[j] = IF j <= Len(s) THEN s[j] ELSE r
    BY <1>1
  <1> QED
    BY <1>1, <1>2, <1>3, <1>4

\* The four ledger calls keep the ledger and the shipped counts well typed.
LEMMA LedgerCallsTyped ==
    ASSUME ConsumptionTypeOK, NEW B, NEW row
    PROVE  /\ \A k \in Consolidation \cup Shipment : Reserve(B, k) => ConsumptionTypeOK'
           /\ Commit(B, row) => ConsumptionTypeOK'
           /\ Release(B, row) => ConsumptionTypeOK'
           /\ \A s \in Shipment : Transfer(B, row, s) => ConsumptionTypeOK'
  <1> USE DEF ConsumptionTypeOK, RowState
  <1>1. ASSUME NEW k \in Consolidation \cup Shipment, Reserve(B, k)
        PROVE  ConsumptionTypeOK'
    <2>1. \A b \in Box : Append(ledger[b], [consumer |-> k, state |-> "RESERVED"]) \in Seq(ConsumptionRow)
      BY RowAppend
    <2> QED
      BY <1>1, <2>1 DEF Reserve
  <1>2. ASSUME Commit(B, row)
        PROVE  ConsumptionTypeOK'
    <2>1. \A b \in Box : [ledger[b] EXCEPT ![row[b]].state = "COMMITTED"] \in Seq(ConsumptionRow)
      BY RowUpdate
    <2> QED
      BY <1>2, <2>1 DEF Commit
  <1>3. ASSUME Release(B, row)
        PROVE  ConsumptionTypeOK'
    <2>1. \A b \in Box : [ledger[b] EXCEPT ![row[b]].state = "RELEASED"] \in Seq(ConsumptionRow)
      BY RowUpdate
    <2> QED
      BY <1>3, <2>1 DEF Release
  <1>4. ASSUME NEW s \in Shipment, Transfer(B, row, s)
        PROVE  ConsumptionTypeOK'
    <2>1. \A b \in Box : [ledger[b] EXCEPT ![row[b]].state = "RELEASED"] \in Seq(ConsumptionRow)
      BY RowUpdate
    <2>2. \A b \in Box : Transferred(b, row[b], s) \in Seq(ConsumptionRow)
      BY <2>1, RowAppend DEF Transferred
    <2> QED
      BY <1>4, <2>2 DEF Transfer
  <1> QED
    BY <1>1, <1>2, <1>3, <1>4

-----------------------------------------------------------------------------
(* Type correctness. *)

\* Marking boxes of a consolidation keeps its allocations well typed.
LEMMA MarkedTyped ==
    ASSUME ConsolidationTypeOK, NEW c, NEW B, NEW st \in ConAllocState
    PROVE  Marked(c, B, st) \in [Consolidation -> [Box -> ConAllocation]]
  <1>0. ASSUME NEW a \in ConAllocation
        PROVE  [a EXCEPT !.state = st] \in ConAllocation
    BY ONLY a \in ConAllocation, st \in ConAllocState DEF ConAllocation
  <1>1. \A k \in Consolidation, b \in Box :
            [conAlloc[k][b] EXCEPT !.state = st] \in ConAllocation
    BY <1>0, Zenon DEF ConsolidationTypeOK
  <1> QED
    BY <1>1 DEF Marked, ConsolidationTypeOK

\* Every step of a consolidation keeps the types of consumptions and
\* consolidations.
LEMMA ConsolidationStepTyped ==
    ASSUME ConsumptionTypeOK, ConsolidationTypeOK, NEW c \in Consolidation, ConsolidationStep(c)
    PROVE  ConsumptionTypeOK' /\ ConsolidationTypeOK'
  <1> USE DEF planVars, ConStatus, ConAllocState, Waiting
  <1>0. UNCHANGED consumptionVars => ConsumptionTypeOK'
    BY DEF consumptionVars, ConsumptionTypeOK
  <1>1. ASSUME NEW s \in Site, NEW r \in Region, CreateConsolidation(c, s, r)
        PROVE  ConsumptionTypeOK' /\ ConsolidationTypeOK'
    BY <1>0, <1>1 DEF CreateConsolidation, ConsolidationTypeOK
  <1>2. ASSUME NEW s \in Site, NEW r \in Region, UpdateConsolidation(c, s, r)
        PROVE  ConsumptionTypeOK' /\ ConsolidationTypeOK'
    BY <1>0, <1>2 DEF UpdateConsolidation, ConsolidationTypeOK
  <1>3. ASSUME NEW B \in SUBSET Box, AllocateBoxes(c, B)
        PROVE  ConsumptionTypeOK' /\ ConsolidationTypeOK'
    <2>1. ConsumptionTypeOK'
      BY <1>3, LedgerCallsTyped DEF AllocateBoxes
    <2>2. \A b \in Box : [state |-> "ALLOCATED", row |-> Len(ledger[b]) + 1] \in ConAllocation
      BY DEF ConAllocation, ConsumptionTypeOK
    <2> QED
      BY <1>3, <2>1, <2>2 DEF AllocateBoxes, ConsolidationTypeOK
  <1>4. ASSUME ReleaseConsolidation(c)
        PROVE  ConsumptionTypeOK' /\ ConsolidationTypeOK'
    BY <1>0, <1>4 DEF ReleaseConsolidation, ConsolidationTypeOK
  <1>5. ASSUME NEW b \in Box, RemoveBox(c, b)
        PROVE  ConsumptionTypeOK' /\ ConsolidationTypeOK'
    BY <1>5, LedgerCallsTyped, MarkedTyped DEF RemoveBox, ConsolidationTypeOK
  <1>6. ASSUME NEW b \in Box, SubmitHandover(c, b)
        PROVE  ConsumptionTypeOK' /\ ConsolidationTypeOK'
    BY <1>0, <1>6, MarkedTyped DEF SubmitHandover, StartReceiving, Collecting, ConsolidationTypeOK
  <1>7. ASSUME NEW b \in Box, ReceiveBox(c, b)
        PROVE  ConsumptionTypeOK' /\ ConsolidationTypeOK'
    BY <1>7, LedgerCallsTyped, MarkedTyped
       DEF ReceiveBox, StartReceiving, Collecting, ConsolidationTypeOK
  <1>8. ASSUME NEW b \in Box, MarkException(c, b)
        PROVE  ConsumptionTypeOK' /\ ConsolidationTypeOK'
    BY <1>0, <1>8, MarkedTyped DEF MarkException, StartReceiving, Collecting, ConsolidationTypeOK
  <1>9. ASSUME NEW b \in Box, ControlledRelease(c, b)
        PROVE  ConsumptionTypeOK' /\ ConsolidationTypeOK'
    BY <1>9, LedgerCallsTyped, MarkedTyped DEF ControlledRelease, ConsolidationTypeOK
  <1>10. ASSUME Ready(c)
         PROVE  ConsumptionTypeOK' /\ ConsolidationTypeOK'
    BY <1>0, <1>10 DEF Ready, Collecting, ConsolidationTypeOK
  <1>11. ASSUME CancelConsolidation(c)
         PROVE  ConsumptionTypeOK' /\ ConsolidationTypeOK'
    BY <1>11, LedgerCallsTyped, MarkedTyped DEF CancelConsolidation, ConsolidationTypeOK
  <1> QED
    BY <1>1, <1>2, <1>3, <1>4, <1>5, <1>6, <1>7, <1>8, <1>9, <1>10, <1>11 DEF ConsolidationStep

\* Every step of a shipment keeps the types of all three services.
LEMMA ShipmentStepTyped ==
    ASSUME TypeOK, NEW s \in Shipment, ShipmentStep(s)
    PROVE  TypeOK'
  <1> USE DEF ShipStatus, OnTheWay
  <1> DEFINE ShipTypeOK == /\ shipStatus \in [Shipment -> ShipStatus]
                           /\ shipRegion \in [Shipment -> Region \cup {None}]
                           /\ shipOrigin \in [Shipment -> Site \cup {None}]
                           /\ shipAlloc \in [Box -> ShipAllocation \cup {NoShipAllocation}]
                           /\ \A k \in Shipment : shipStatus[k] # "NONE" => shipRegion[k] \in Region
  <1>0. /\ UNCHANGED consumptionVars => ConsumptionTypeOK'
        /\ UNCHANGED consolidationVars => ConsolidationTypeOK'
        /\ ConsumptionTypeOK /\ ConsolidationTypeOK /\ ShipTypeOK
    BY DEF TypeOK, consumptionVars, consolidationVars, ConsumptionTypeOK, ConsolidationTypeOK
  <1>1. ASSUME NEW r \in Region, NEW o \in Site \cup {None}, CreateShipment(s, r, o)
        PROVE  TypeOK'
    BY <1>0, <1>1 DEF CreateShipment, TypeOK
  <1>2. ASSUME NEW r \in Region, NEW o \in Site \cup {None}, UpdateShipment(s, r, o)
        PROVE  TypeOK'
    BY <1>0, <1>2 DEF UpdateShipment, TypeOK
  <1>3. ASSUME NEW c \in Consolidation, NEW B \in SUBSET Box, LoadBoxes(s, c, B)
        PROVE  TypeOK'
    <2>1. ConsumptionTypeOK'
      BY <1>0, <1>3, LedgerCallsTyped DEF LoadBoxes, TransferBoxes
    <2>2. ConsolidationTypeOK'
      BY <1>0, <1>3, MarkedTyped
         DEF LoadBoxes, TransferBoxes, ConsolidationTypeOK, planVars, ConStatus, ConAllocState
    <2>3. \A b \in Box : [state |-> "TRANSFERRED", shipment |-> s, consolidation |-> c,
                          row |-> Len(ledger[b]) + 1] \in ShipAllocation
      BY <1>0 DEF ShipAllocation, ConsumptionTypeOK
    <2>4. shipAlloc' \in [Box -> ShipAllocation \cup {NoShipAllocation}]
      BY <1>0, <1>3, <2>3 DEF LoadBoxes
    <2>5. shipRegion[s] \in Region
      BY <1>0, <1>3 DEF LoadBoxes, RouteFits, TransferBoxes, ConsolidationTypeOK
    <2> QED
      BY <1>0, <1>3, <2>1, <2>2, <2>4, <2>5 DEF LoadBoxes, TypeOK
  <1>4. ASSUME DeclareCustoms(s)
        PROVE  TypeOK'
    BY <1>0, <1>4 DEF DeclareCustoms, TypeOK
  <1>5. \A b \in Box, st \in OnTheWay : shipAlloc[b].state # "NONE"
            => [shipAlloc[b] EXCEPT !.state = st] \in ShipAllocation
    <2>1. \A b \in Box : shipAlloc[b].state # "NONE" => shipAlloc[b] \in ShipAllocation
      BY <1>0 DEF NoShipAllocation
    <2> QED
      BY <2>1 DEF ShipAllocation
  <1>6. ASSUME NEW B \in SUBSET Box, Dispatch(s, B)
        PROVE  TypeOK'
    <2>1. ConsumptionTypeOK' /\ ConsolidationTypeOK'
      BY <1>0, <1>6, LedgerCallsTyped DEF Dispatch
    <2>2. shipAlloc' \in [Box -> ShipAllocation \cup {NoShipAllocation}]
      BY <1>0, <1>5, <1>6 DEF Dispatch
    <2> QED
      BY <1>0, <1>6, <2>1, <2>2 DEF Dispatch, TypeOK
  <1>7. ASSUME NEW before \in ShipStatus \ {"NONE"}, NEW after \in ShipStatus,
               NEW fromState \in OnTheWay, NEW toState \in OnTheWay,
               Arrive(s, before, after, fromState, toState)
        PROVE  TypeOK'
    <2>1. shipAlloc' \in [Box -> ShipAllocation \cup {NoShipAllocation}]
      BY <1>0, <1>5, <1>7 DEF Arrive, AllAt, Cargo
    <2> QED
      BY <1>0, <1>7, <2>1 DEF Arrive, TypeOK
  <1>8. ASSUME CancelShipment(s)
        PROVE  TypeOK'
    BY <1>0, <1>8 DEF CancelShipment, TypeOK
  <1>9. PortArrival(s) \/ WarehouseArrival(s) \/ Clear(s) => TypeOK'
    BY <1>7 DEF PortArrival, WarehouseArrival, Clear
  <1> QED
    BY <1>1, <1>2, <1>3, <1>4, <1>6, <1>8, <1>9 DEF ShipmentStep

\* The initial states are well typed.
LEMMA InitTyped ==
    ASSUME Init
    PROVE  TypeOK
  <1>1. \A b \in Box : << >> \in Seq(ConsumptionRow)
    OBVIOUS
  <1> QED
    BY <1>1 DEF Init, TypeOK, ConsumptionInit, ConsumptionTypeOK, ConsolidationInit,
                ConsolidationTypeOK, ConStatus, ConAllocation, ConAllocState, ShipStatus

\* Every step keeps the types.
LEMMA NextTyped ==
    ASSUME TypeOK, [Next]_vars
    PROVE  TypeOK'
  <1>1. CASE SiteStep /\ UNCHANGED shipmentVars
    <2>1. PICK s \in Site : DeactivateSite(s) \/ \E r \in Region : UpdateSite(s, r)
      BY <1>1 DEF SiteStep
    <2>2. CASE DeactivateSite(s)
      <3>1. siteActive' \in [Site -> BOOLEAN]
        BY <2>2, Zenon DEF DeactivateSite, TypeOK, ConsolidationTypeOK
      <3> QED
        BY <1>1, <2>2, <3>1 DEF DeactivateSite, TypeOK, ConsumptionTypeOK,
                                ConsolidationTypeOK, consumptionVars, shipmentVars
    <2>3. CASE \E r \in Region : UpdateSite(s, r)
      BY <1>1, <2>3 DEF UpdateSite, TypeOK, ConsumptionTypeOK,
                        ConsolidationTypeOK, consumptionVars, shipmentVars
    <2> QED
      BY <2>1, <2>2, <2>3
  <1>2. CASE \E c \in Consolidation : ConsolidationStep(c) /\ UNCHANGED shipmentVars
    BY <1>2, ConsolidationStepTyped DEF TypeOK, shipmentVars
  <1>3. CASE \E s \in Shipment : ShipmentStep(s)
    BY <1>3, ShipmentStepTyped
  <1>4. CASE UNCHANGED vars
    BY <1>4 DEF vars, TypeOK, ConsumptionTypeOK, ConsolidationTypeOK, consumptionVars,
                consolidationVars, shipmentVars
  <1> QED
    BY <1>1, <1>2, <1>3, <1>4 DEF Next

\* Type correctness: statuses, routes, allocations and ledger rows of every
\* reachable state have the values the models declare, and a planned
\* consolidation or shipment always has its region.
THEOREM TypeCorrect == Spec => []TypeOK
  <1>1. Init => TypeOK
    BY InitTyped
  <1>2. TypeOK /\ [Next]_vars => TypeOK'
    BY NextTyped
  <1> QED
    BY <1>1, <1>2, PTL DEF Spec

-----------------------------------------------------------------------------
(* The custody invariant, box by box. *)

\* What holds of one box: no single one of the three properties is inductive,
\* because a release or a transfer finds its ledger row through the allocation,
\* and a claim is safe only if no allocation is live without its row.
BoxInv(b) ==
    /\ \A i, j \in Active(b) : i = j
    /\ \A c \in Consolidation : ConsolidationRow(c, b)
    /\ ShipmentRow(b)
    /\ \A i \in Active(b) : HeldFor(b, i)

CustodyInv == TypeOK /\ \A b \in Box : BoxInv(b)

Untouched(b) ==
    /\ ledger'[b] = ledger[b]
    /\ \A c \in Consolidation : conAlloc'[c][b] = conAlloc[c][b]
    /\ shipAlloc'[b] = shipAlloc[b]

\* A step that leaves a box alone keeps its invariant.
LEMMA BoxUntouched ==
    ASSUME NEW b, BoxInv(b), Untouched(b)
    PROVE  BoxInv(b)'
  BY DEF BoxInv, Untouched, Active, ConsolidationRow, ShipmentRow, HeldFor

\* A consolidation claims a free box.
LEMMA BoxClaimed ==
    ASSUME TypeOK, NEW b \in Box, BoxInv(b), NEW c \in Consolidation,
           BoxIsFree(b),
           ledger'[b] = Append(ledger[b], [consumer |-> c, state |-> "RESERVED"]),
           conAlloc'[c][b] = [state |-> "ALLOCATED", row |-> Len(ledger[b]) + 1],
           \A k \in Consolidation \ {c} : conAlloc'[k][b] = conAlloc[k][b],
           shipAlloc'[b] = shipAlloc[b]
    PROVE  BoxInv(b)'
  <1>0. PICK n : n = Len(ledger[b]) + 1
    OBVIOUS
  <1>1. ledger[b] \in Seq(ConsumptionRow)
    BY DEF TypeOK, ConsumptionTypeOK
  <1>2. /\ DOMAIN ledger'[b] = DOMAIN ledger[b] \cup {n}
        /\ n \notin DOMAIN ledger[b]
        /\ ledger'[b][n] = [consumer |-> c, state |-> "RESERVED"]
        /\ \A j \in DOMAIN ledger[b] : ledger'[b][j] = ledger[b][j]
    BY <1>0, <1>1, RowAppend
  <1>3. conAlloc'[c][b] = [state |-> "ALLOCATED", row |-> n]
    BY <1>0
  <1>4. Active(b)' = {n}
    BY <1>2 DEF Active, BoxIsFree
  <1>5. \A k \in Consolidation : ConsolidationRow(k, b)'
    <2>1. ConsolidationRow(c, b)'
      BY ONLY <1>2, <1>3 DEF ConsolidationRow, RowStateOf, Waiting
    <2>2. ASSUME NEW k \in Consolidation \ {c}
          PROVE  ConsolidationRow(k, b)'
      <3>1. conAlloc'[k][b] = conAlloc[k][b] /\ ConsolidationRow(k, b)
        BY DEF BoxInv
      <3> QED
        BY ONLY <1>2, <2>2, <3>1 DEF ConsolidationRow
    <2> QED
      BY <2>1, <2>2
  <1>6. ShipmentRow(b)'
    BY <1>2 DEF BoxInv, ShipmentRow
  <1>7. HeldFor(b, n)'
    BY <1>2, <1>3, ConsumptionAssumption DEF HeldFor, Waiting
  <1> QED
    BY <1>4, <1>5, <1>6, <1>7 DEF BoxInv

\* A consolidation's live allocation of a box changes state, and the ledger row
\* it points to follows: a handover, a receipt, an exception or a release.
LEMMA BoxMarked ==
    ASSUME TypeOK, NEW b \in Box, BoxInv(b), NEW c \in Consolidation,
           NEW st \in Waiting \cup {"RECEIVED", "RELEASED"},
           conAlloc[c][b].state \in Waiting \cup {"RECEIVED"},
           ledger'[b] = [ledger[b] EXCEPT ![conAlloc[c][b].row].state = RowStateOf(st)],
           conAlloc'[c][b] = [conAlloc[c][b] EXCEPT !.state = st],
           \A k \in Consolidation \ {c} : conAlloc'[k][b] = conAlloc[k][b],
           shipAlloc'[b] = shipAlloc[b]
    PROVE  BoxInv(b)'
  <1>0. PICK n : n = conAlloc[c][b].row
    OBVIOUS
  <1>1. /\ ledger[b] \in Seq(ConsumptionRow)
        /\ conAlloc[c][b] \in ConAllocation
        /\ shipAlloc[b] \in ShipAllocation \cup {NoShipAllocation}
    BY DEF TypeOK, ConsumptionTypeOK, ConsolidationTypeOK
  <1>2. /\ n \in DOMAIN ledger[b]
        /\ ledger[b][n].consumer = c
        /\ ledger[b][n].state \in {"RESERVED", "COMMITTED"}
    BY <1>0 DEF BoxInv, ConsolidationRow, RowStateOf, Waiting
  <1>3. PICK rs \in RowState : rs = RowStateOf(st)
    BY DEF RowStateOf, RowState
  <1>4. /\ DOMAIN ledger'[b] = DOMAIN ledger[b]
        /\ \A j \in DOMAIN ledger[b] : j # n => ledger'[b][j] = ledger[b][j]
        /\ ledger'[b][n] = [consumer |-> c, state |-> rs]
    <2>1. PICK old \in Seq(ConsumptionRow) : old = ledger[b]
      BY <1>1
    <2>2. PICK new : new = [old EXCEPT ![n].state = rs]
      OBVIOUS
    <2>3. ledger'[b] = new
      BY <1>0, <1>3, <2>1, <2>2, Zenon
    <2>4. /\ DOMAIN new = DOMAIN old
          /\ \A j \in DOMAIN old : j # n => new[j] = old[j]
          /\ n \in DOMAIN old => new[n] = [consumer |-> old[n].consumer, state |-> rs]
      BY ONLY <2>1, <2>2, rs \in RowState, RowUpdate, Zenon
    <2> QED
      BY ONLY <1>2, <2>1, <2>3, <2>4
  <1>5. conAlloc'[c][b] = [state |-> st, row |-> n]
    BY <1>0, <1>1 DEF ConAllocation
  <1>6. Active(b) = {n}
    BY <1>2 DEF Active, BoxInv
  <1>7. Active(b)' = IF st = "RELEASED" THEN {} ELSE {n}
    BY ONLY <1>2, <1>3, <1>4, <1>6, st \in Waiting \cup {"RECEIVED", "RELEASED"}
       DEF Active, RowStateOf, Waiting
  <1>8. \A k \in Consolidation : ConsolidationRow(k, b)'
    BY ONLY <1>2, <1>3, <1>4, <1>5, BoxInv(b),
            \A k \in Consolidation \ {c} : conAlloc'[k][b] = conAlloc[k][b]
       DEF BoxInv, ConsolidationRow
  <1>9. ShipmentRow(b)'
    BY ONLY <1>1, <1>2, <1>4, ConsumptionAssumption, BoxInv(b), shipAlloc'[b] = shipAlloc[b],
            c \in Consolidation
       DEF BoxInv, ShipmentRow, ShipAllocation, NoShipAllocation
  <1>10. st # "RELEASED" => HeldFor(b, n)'
    BY ONLY <1>4, <1>5, ConsumptionAssumption, c \in Consolidation,
            st \in Waiting \cup {"RECEIVED", "RELEASED"}
       DEF HeldFor, Waiting
  <1> QED
    BY <1>7, <1>8, <1>9, <1>10 DEF BoxInv

\* A shipment takes a box that a consolidation has received.
LEMMA BoxLoaded ==
    ASSUME TypeOK, NEW b \in Box, BoxInv(b), NEW c \in Consolidation, NEW s \in Shipment,
           conAlloc[c][b].state = "RECEIVED",
           shipAlloc[b].state = "NONE",
           ledger'[b] = Transferred(b, conAlloc[c][b].row, s),
           conAlloc'[c][b] = [conAlloc[c][b] EXCEPT !.state = "TRANSFERRED"],
           \A k \in Consolidation \ {c} : conAlloc'[k][b] = conAlloc[k][b],
           shipAlloc'[b] = [state |-> "TRANSFERRED", shipment |-> s, consolidation |-> c,
                            row |-> Len(ledger[b]) + 1]
    PROVE  BoxInv(b)'
  <1>0. PICK i, n : i = conAlloc[c][b].row /\ n = Len(ledger[b]) + 1
    OBVIOUS
  <1> DEFINE ended == [ledger[b] EXCEPT ![i].state = "RELEASED"]
  <1>1. /\ ledger[b] \in Seq(ConsumptionRow)
        /\ conAlloc[c][b] \in ConAllocation
    BY DEF TypeOK, ConsumptionTypeOK, ConsolidationTypeOK
  <1>2. /\ i \in DOMAIN ledger[b]
        /\ ledger[b][i].consumer = c
        /\ ledger[b][i].state = "COMMITTED"
    BY <1>0 DEF BoxInv, ConsolidationRow, RowStateOf, Waiting
  <1>3. Active(b) = {i}
    BY <1>2 DEF Active, BoxInv
  <1>4. /\ ended \in Seq(ConsumptionRow)
        /\ DOMAIN ended = DOMAIN ledger[b]
        /\ \A j \in DOMAIN ledger[b] : j # i => ended[j] = ledger[b][j]
        /\ ended[i] = [consumer |-> c, state |-> "RELEASED"]
    <2>1. PICK old \in Seq(ConsumptionRow) : old = ledger[b]
      BY <1>1
    <2>2. PICK new : new = [old EXCEPT ![i].state = "RELEASED"]
      OBVIOUS
    <2>3. /\ new \in Seq(ConsumptionRow)
          /\ DOMAIN new = DOMAIN old
          /\ \A j \in DOMAIN old : j # i => new[j] = old[j]
          /\ i \in DOMAIN old => new[i] = [consumer |-> old[i].consumer, state |-> "RELEASED"]
      <3>1. "RELEASED" \in RowState
        BY DEF RowState
      <3> QED
        BY ONLY <2>1, <2>2, <3>1, RowUpdate, Zenon
    <2>4. ended = new
      BY <2>1, <2>2
    <2> HIDE DEF ended
    <2> QED
      BY ONLY <1>2, <2>1, <2>3, <2>4
  <1>5. Len(ended) = Len(ledger[b])
    BY <1>1, <1>4
  <1>6. /\ DOMAIN ledger'[b] = DOMAIN ledger[b] \cup {n}
        /\ n \notin DOMAIN ledger[b]
        /\ ledger'[b][n] = [consumer |-> s, state |-> "RESERVED"]
        /\ \A j \in DOMAIN ledger[b] : ledger'[b][j] = ended[j]
    <2>1. PICK old \in Seq(ConsumptionRow) : old = ended
      BY <1>4
    <2>2. ledger'[b] = Append(old, [consumer |-> s, state |-> "RESERVED"])
      BY <1>0, <2>1, Zenon DEF Transferred
    <2>3. PICK new : new = Append(old, [consumer |-> s, state |-> "RESERVED"])
      OBVIOUS
    <2>4. /\ DOMAIN new = DOMAIN old \cup {Len(old) + 1}
          /\ Len(old) + 1 \in Nat \ DOMAIN old
          /\ new[Len(old) + 1] = [consumer |-> s, state |-> "RESERVED"]
          /\ \A j \in DOMAIN old : new[j] = old[j]
      BY ONLY s \in Shipment, old \in Seq(ConsumptionRow), <2>3, RowAppend
    <2>5. n = Len(old) + 1 /\ DOMAIN old = DOMAIN ledger[b]
      BY <1>0, <1>4, <1>5, <2>1
    <2> HIDE DEF ended
    <2> QED
      BY ONLY <2>1, <2>2, <2>3, <2>4, <2>5
  <1>7. conAlloc'[c][b] = [state |-> "TRANSFERRED", row |-> i]
    BY <1>0, <1>1 DEF ConAllocation
  <1>8. shipAlloc'[b] = [state |-> "TRANSFERRED", shipment |-> s, consolidation |-> c, row |-> n]
    BY <1>0
  <1> HIDE DEF ended
  <1>9. Active(b)' = {n}
    BY <1>3, <1>4, <1>6 DEF Active
  <1>10. \A k \in Consolidation : ConsolidationRow(k, b)'
    <2>1. ConsolidationRow(c, b)'
      BY ONLY <1>2, <1>4, <1>6, <1>7 DEF ConsolidationRow, RowStateOf, Waiting
    <2>2. ASSUME NEW k \in Consolidation \ {c}
          PROVE  ConsolidationRow(k, b)'
      <3>1. conAlloc'[k][b] = conAlloc[k][b] /\ ConsolidationRow(k, b)
        BY DEF BoxInv
      <3> QED
        BY ONLY <1>2, <1>4, <1>6, <2>2, <3>1 DEF ConsolidationRow
    <2> QED
      BY <2>1, <2>2
  <1>11. ShipmentRow(b)'
    BY <1>6, <1>8 DEF ShipmentRow
  <1>12. HeldFor(b, n)'
    BY <1>6, <1>8, ConsumptionAssumption DEF HeldFor
  <1> QED
    BY <1>9, <1>10, <1>11, <1>12 DEF BoxInv

\* A box of a shipment leaves, or moves on once it has left.
LEMMA BoxMovedOn ==
    ASSUME TypeOK, NEW b \in Box, BoxInv(b), NEW st \in OnTheWay,
           shipAlloc[b].state # "NONE",
           ledger'[b] = [ledger[b] EXCEPT ![shipAlloc[b].row].state = "COMMITTED"],
           shipAlloc'[b] = [shipAlloc[b] EXCEPT !.state = st],
           \A k \in Consolidation : conAlloc'[k][b] = conAlloc[k][b]
    PROVE  BoxInv(b)'
  <1>0. PICK n, s : n = shipAlloc[b].row /\ s = shipAlloc[b].shipment
    OBVIOUS
  <1>1. ledger[b] \in Seq(ConsumptionRow) /\ shipAlloc[b] \in ShipAllocation
    BY DEF TypeOK, ConsumptionTypeOK, NoShipAllocation
  <1>2. /\ n \in DOMAIN ledger[b]
        /\ ledger[b][n].consumer = s
        /\ ledger[b][n].state \in {"RESERVED", "COMMITTED"}
        /\ s \in Shipment
    BY <1>0, <1>1 DEF BoxInv, ShipmentRow, ShipAllocation
  <1>3. /\ DOMAIN ledger'[b] = DOMAIN ledger[b]
        /\ \A j \in DOMAIN ledger[b] : j # n => ledger'[b][j] = ledger[b][j]
        /\ ledger'[b][n] = [consumer |-> s, state |-> "COMMITTED"]
    BY <1>0, <1>1, <1>2, RowUpdate DEF RowState
  <1>4. shipAlloc'[b].state = st /\ shipAlloc'[b].shipment = s /\ shipAlloc'[b].row = n
    BY <1>0, <1>1 DEF ShipAllocation
  <1>5. Active(b) = {n}
    BY <1>2 DEF Active, BoxInv
  <1>6. Active(b)' = {n}
    BY ONLY <1>2, <1>3, <1>5 DEF Active
  <1>7. \A k \in Consolidation : ConsolidationRow(k, b)'
    BY ONLY <1>2, <1>3, ConsumptionAssumption, BoxInv(b),
            \A k \in Consolidation : conAlloc'[k][b] = conAlloc[k][b]
       DEF BoxInv, ConsolidationRow
  <1>8. ShipmentRow(b)'
    BY <1>2, <1>3, <1>4 DEF ShipmentRow, OnTheWay
  <1>9. HeldFor(b, n)'
    BY ONLY <1>2, <1>3, <1>4, ConsumptionAssumption DEF HeldFor
  <1> QED
    BY <1>6, <1>7, <1>8, <1>9 DEF BoxInv

-----------------------------------------------------------------------------
(* Every step keeps the custody invariant. *)

\* Marking is writing the state of the named boxes and nothing else.
LEMMA MarkedAt ==
    ASSUME ConsolidationTypeOK, NEW c \in Consolidation, NEW B, NEW st,
           conAlloc' = Marked(c, B, st), NEW b \in Box
    PROVE  /\ \A k \in Consolidation \ {c} : conAlloc'[k][b] = conAlloc[k][b]
           /\ b \in B => conAlloc'[c][b] = [conAlloc[c][b] EXCEPT !.state = st]
           /\ b \notin B => conAlloc'[c][b] = conAlloc[c][b]
  BY DEF Marked, ConsolidationTypeOK

\* Writing the state that a row has changes nothing.
LEMMA SameState ==
    ASSUME NEW s \in Seq(ConsumptionRow), NEW i \in DOMAIN s, NEW r, r = s[i].state
    PROVE  [s EXCEPT ![i].state = r] = s
  <1>1. s[i] \in ConsumptionRow
    OBVIOUS
  <1>2. [s[i] EXCEPT !.state = r] = s[i]
    BY <1>1 DEF ConsumptionRow
  <1>3. [s EXCEPT ![i] = s[i]] = s
    OBVIOUS
  <1> QED
    BY <1>2, <1>3

\* A live allocation of a consolidation changes to st, in the allocation and in
\* the ledger, for the boxes B; other boxes are left alone.
LEMMA MarkingKeepsBoxInv ==
    ASSUME TypeOK, NEW c \in Consolidation, NEW B,
           NEW st \in Waiting \cup {"RECEIVED", "RELEASED"},
           conAlloc' = Marked(c, B, st), shipAlloc' = shipAlloc,
           NEW b \in Box, BoxInv(b),
           b \in B => /\ conAlloc[c][b].state \in Waiting \cup {"RECEIVED"}
                      /\ ledger'[b] = [ledger[b] EXCEPT ![conAlloc[c][b].row].state = RowStateOf(st)],
           b \notin B => ledger'[b] = ledger[b]
    PROVE  BoxInv(b)'
  <1>1. /\ \A k \in Consolidation \ {c} : conAlloc'[k][b] = conAlloc[k][b]
        /\ b \in B => conAlloc'[c][b] = [conAlloc[c][b] EXCEPT !.state = st]
        /\ b \notin B => conAlloc'[c][b] = conAlloc[c][b]
    BY MarkedAt DEF TypeOK
  <1>2. CASE b \in B
    BY <1>1, <1>2, BoxMarked
  <1>3. CASE b \notin B
    BY <1>1, <1>3, BoxUntouched DEF Untouched
  <1> QED
    BY <1>2, <1>3

\* The same when the ledger already says st: a handover or an exception.
LEMMA QuietMarkingKeepsBoxInv ==
    ASSUME TypeOK, NEW c \in Consolidation, NEW a \in Box, NEW st \in Waiting,
           conAlloc' = Marked(c, {a}, st), ledger' = ledger, shipAlloc' = shipAlloc,
           conAlloc[c][a].state \in Waiting,
           NEW b \in Box, BoxInv(b)
    PROVE  BoxInv(b)'
  <1>1. CASE b = a
    <2>1. ledger[b] \in Seq(ConsumptionRow)
      BY DEF TypeOK, ConsumptionTypeOK
    <2>2. /\ conAlloc[c][b].row \in DOMAIN ledger[b]
          /\ ledger[b][conAlloc[c][b].row].state = RowStateOf(st)
      BY <1>1 DEF BoxInv, ConsolidationRow, RowStateOf, Waiting
    <2>3. ledger'[b] = [ledger[b] EXCEPT ![conAlloc[c][b].row].state = RowStateOf(st)]
      <3>0. PICK old \in Seq(ConsumptionRow) : old = ledger[b]
        BY <2>1
      <3>1. PICK i : i = conAlloc[c][b].row
        OBVIOUS
      <3>2. PICK r : r = RowStateOf(st)
        OBVIOUS
      <3>3. [old EXCEPT ![i].state = r] = old
        <4>1. i \in DOMAIN old /\ r = old[i].state
          BY <2>2, <3>0, <3>1, <3>2, Zenon
        <4> QED
          BY ONLY old \in Seq(ConsumptionRow), <4>1, SameState
      <3> QED
        BY <3>0, <3>1, <3>2, <3>3, Zenon
    <2>4. st \in Waiting \cup {"RECEIVED", "RELEASED"} /\ b \in {a}
      BY <1>1
    <2>5. conAlloc[c][b].state \in Waiting \cup {"RECEIVED"}
      BY <1>1
    <2>6. b \in {a} => /\ conAlloc[c][b].state \in Waiting \cup {"RECEIVED"}
                       /\ ledger'[b] = [ledger[b] EXCEPT ![conAlloc[c][b].row].state = RowStateOf(st)]
      BY <2>3, <2>5
    <2>7. b \notin {a} => ledger'[b] = ledger[b]
      BY <2>4
    <2> QED
      BY <2>4, <2>6, <2>7, MarkingKeepsBoxInv
  <1>2. CASE b # a
    <2>1. \A k \in Consolidation : conAlloc'[k][b] = conAlloc[k][b]
      BY <1>2 DEF Marked, TypeOK, ConsolidationTypeOK
    <2> QED
      BY <2>1, BoxUntouched DEF Untouched
  <1> QED
    BY <1>1, <1>2

\* Every step of a consolidation keeps the invariant of every box.
LEMMA ConsolidationStepKeeps ==
    ASSUME TypeOK, NEW c \in Consolidation, ConsolidationStep(c), UNCHANGED shipmentVars,
           NEW b \in Box, BoxInv(b)
    PROVE  BoxInv(b)'
  <1>0. /\ ConsumptionTypeOK /\ ConsolidationTypeOK
        /\ shipAlloc' = shipAlloc
        /\ UNCHANGED <<ledger, conAlloc>> => BoxInv(b)'
    BY BoxUntouched DEF TypeOK, shipmentVars, Untouched
  <1>1. ASSUME NEW s \in Site, NEW r \in Region, CreateConsolidation(c, s, r) \/ UpdateConsolidation(c, s, r)
        PROVE  BoxInv(b)'
    BY <1>0, <1>1 DEF CreateConsolidation, UpdateConsolidation, consumptionVars
  <1>2. ASSUME NEW B \in SUBSET Box, AllocateBoxes(c, B)
        PROVE  BoxInv(b)'
    <2>1. \A k \in Consolidation \ {c} : conAlloc'[k][b] = conAlloc[k][b]
      BY <1>0, <1>2 DEF AllocateBoxes, ConsolidationTypeOK
    <2>2. CASE b \in B
      <3>1. BoxIsFree(b) /\ ledger'[b] = Append(ledger[b], [consumer |-> c, state |-> "RESERVED"])
        BY <1>2, <2>2 DEF AllocateBoxes, Reserve
      <3>2. conAlloc'[c][b] = [state |-> "ALLOCATED", row |-> Len(ledger[b]) + 1]
        BY <1>0, <1>2, <2>2 DEF AllocateBoxes, ConsolidationTypeOK
      <3> QED
        BY <1>0, <2>1, <3>1, <3>2, BoxClaimed
    <2>3. CASE b \notin B
      BY <1>0, <1>2, <2>1, <2>3, BoxUntouched DEF AllocateBoxes, Reserve, Untouched, ConsolidationTypeOK
    <2> QED
      BY <2>2, <2>3
  <1>3. ASSUME ReleaseConsolidation(c) \/ Ready(c)
        PROVE  BoxInv(b)'
    BY <1>0, <1>3 DEF ReleaseConsolidation, Ready, consumptionVars
  <1>4. ASSUME NEW B, Release(B, AllocatedRow(c)), conAlloc' = Marked(c, B, "RELEASED"),
               \A a \in B : conAlloc[c][a].state \in Waiting
        PROVE  BoxInv(b)'
    <2>1. b \in B => ledger'[b] = [ledger[b] EXCEPT ![conAlloc[c][b].row].state = "RELEASED"]
      BY <1>4 DEF Release, AllocatedRow
    <2>2. b \notin B => ledger'[b] = ledger[b]
      BY <1>4 DEF Release
    <2>3. RowStateOf("RELEASED") = "RELEASED"
      BY DEF RowStateOf, Waiting
    <2> QED
      BY <1>0, <1>4, <2>1, <2>2, <2>3, MarkingKeepsBoxInv
  <1>5. ASSUME NEW a \in Box, RemoveBox(c, a) \/ ControlledRelease(c, a)
        PROVE  BoxInv(b)'
    BY <1>4, <1>5 DEF RemoveBox, ControlledRelease, Waiting
  <1>6. ASSUME CancelConsolidation(c)
        PROVE  BoxInv(b)'
    BY <1>4, <1>6 DEF CancelConsolidation, Waiting
  <1>7. ASSUME NEW a \in Box, SubmitHandover(c, a)
        PROVE  BoxInv(b)'
    BY <1>0, <1>7, QuietMarkingKeepsBoxInv DEF SubmitHandover, Waiting, consumptionVars
  <1>8. ASSUME NEW a \in Box, MarkException(c, a)
        PROVE  BoxInv(b)'
    BY <1>0, <1>8, QuietMarkingKeepsBoxInv DEF MarkException, Waiting, consumptionVars
  <1>9. ASSUME NEW a \in Box, ReceiveBox(c, a)
        PROVE  BoxInv(b)'
    <2>1. b = a => ledger'[b] = [ledger[b] EXCEPT ![conAlloc[c][b].row].state = "COMMITTED"]
      BY <1>9 DEF ReceiveBox, Commit, AllocatedRow
    <2>2. b # a => ledger'[b] = ledger[b]
      BY <1>9 DEF ReceiveBox, Commit
    <2>3. RowStateOf("RECEIVED") = "COMMITTED"
      BY DEF RowStateOf, Waiting
    <2> QED
      BY <1>0, <1>9, <2>1, <2>2, <2>3, MarkingKeepsBoxInv DEF ReceiveBox
  <1> QED
    BY <1>1, <1>2, <1>3, <1>5, <1>6, <1>7, <1>8, <1>9 DEF ConsolidationStep

\* Every step of a shipment keeps the invariant of every box.
LEMMA ShipmentStepKeeps ==
    ASSUME TypeOK, NEW s \in Shipment, ShipmentStep(s), NEW b \in Box, BoxInv(b)
    PROVE  BoxInv(b)'
  <1>0. /\ ConsumptionTypeOK /\ ConsolidationTypeOK
        /\ shipAlloc \in [Box -> ShipAllocation \cup {NoShipAllocation}]
        /\ UNCHANGED <<ledger, conAlloc, shipAlloc>> => BoxInv(b)'
    BY BoxUntouched DEF TypeOK, Untouched
  <1>1. ASSUME NEW r \in Region, NEW o \in Site \cup {None},
               CreateShipment(s, r, o) \/ UpdateShipment(s, r, o)
        PROVE  BoxInv(b)'
    BY <1>0, <1>1 DEF CreateShipment, UpdateShipment, consumptionVars, consolidationVars
  <1>2. ASSUME DeclareCustoms(s) \/ CancelShipment(s)
        PROVE  BoxInv(b)'
    BY <1>0, <1>2 DEF DeclareCustoms, CancelShipment, consumptionVars, consolidationVars
  <1>3. ASSUME NEW c \in Consolidation, NEW B \in SUBSET Box, LoadBoxes(s, c, B)
        PROVE  BoxInv(b)'
    <2>1. /\ TransferBoxes(c, B, s)
          /\ conAlloc' = Marked(c, B, "TRANSFERRED")
      BY <1>3 DEF LoadBoxes, TransferBoxes
    <2>2. /\ \A k \in Consolidation \ {c} : conAlloc'[k][b] = conAlloc[k][b]
          /\ b \in B => conAlloc'[c][b] = [conAlloc[c][b] EXCEPT !.state = "TRANSFERRED"]
          /\ b \notin B => conAlloc'[c][b] = conAlloc[c][b]
      BY <1>0, <2>1, MarkedAt
    <2>3. CASE b \in B
      <3>1. /\ conAlloc[c][b].state = "RECEIVED"
            /\ ledger'[b] = Transferred(b, conAlloc[c][b].row, s)
        BY <2>1, <2>3 DEF TransferBoxes, Transfer, AllocatedRow
      <3>2. /\ shipAlloc[b].state = "NONE"
            /\ shipAlloc'[b] = [state |-> "TRANSFERRED", shipment |-> s, consolidation |-> c,
                                row |-> Len(ledger[b]) + 1]
        BY <1>3, <2>3 DEF LoadBoxes
      <3> QED
        BY <2>2, <2>3, <3>1, <3>2, BoxLoaded
    <2>4. CASE b \notin B
      <3>1. ledger'[b] = ledger[b]
        BY <2>1, <2>4 DEF TransferBoxes, Transfer
      <3>2. shipAlloc'[b] = shipAlloc[b]
        BY <1>3, <2>4 DEF LoadBoxes
      <3> QED
        BY <2>2, <2>4, <3>1, <3>2, BoxUntouched DEF Untouched
    <2> QED
      BY <2>3, <2>4
  <1>4. ASSUME NEW B \in SUBSET Box, Dispatch(s, B)
        PROVE  BoxInv(b)'
    <2>1. \A k \in Consolidation : conAlloc'[k][b] = conAlloc[k][b]
      BY <1>4 DEF Dispatch, consolidationVars
    <2>2. CASE b \in B
      <3>1. ledger'[b] = [ledger[b] EXCEPT ![shipAlloc[b].row].state = "COMMITTED"]
        BY <1>4, <2>2 DEF Dispatch, Commit
      <3>2. /\ shipAlloc[b].state # "NONE"
            /\ shipAlloc'[b] = [shipAlloc[b] EXCEPT !.state = "DISPATCHED"]
        BY <1>4, <2>2 DEF Dispatch
      <3> QED
        BY <2>1, <3>1, <3>2, BoxMovedOn DEF OnTheWay
    <2>3. CASE b \notin B
      BY <1>4, <2>1, <2>3, BoxUntouched DEF Dispatch, Commit, Untouched
    <2> QED
      BY <2>2, <2>3
  <1>5. ASSUME NEW before, NEW after, NEW fromState \in OnTheWay, NEW toState \in OnTheWay,
               Arrive(s, before, after, fromState, toState)
        PROVE  BoxInv(b)'
    <2>1. /\ \A k \in Consolidation : conAlloc'[k][b] = conAlloc[k][b]
          /\ ledger' = ledger
      BY <1>5 DEF Arrive, consolidationVars, consumptionVars
    <2>2. CASE b \in Cargo(s)
      <3>1. /\ shipAlloc[b].state = fromState
            /\ shipAlloc'[b] = [shipAlloc[b] EXCEPT !.state = toState]
        BY <1>5, <2>2 DEF Arrive, AllAt
      <3>2. ledger[b] \in Seq(ConsumptionRow)
        BY <1>0 DEF ConsumptionTypeOK
      <3>3. /\ shipAlloc[b].row \in DOMAIN ledger[b]
            /\ ledger[b][shipAlloc[b].row].state = "COMMITTED"
        BY <3>1 DEF BoxInv, ShipmentRow, OnTheWay
      <3>4. ledger'[b] = [ledger[b] EXCEPT ![shipAlloc[b].row].state = "COMMITTED"]
        <4>0. PICK old \in Seq(ConsumptionRow) : old = ledger[b]
          BY <3>2
        <4>1. PICK i : i = shipAlloc[b].row
          OBVIOUS
        <4>2. PICK r : r = "COMMITTED"
          OBVIOUS
        <4>3. [old EXCEPT ![i].state = r] = old
          <5>1. i \in DOMAIN old /\ r = old[i].state
            BY <3>3, <4>0, <4>1, <4>2, Zenon
          <5> QED
            BY ONLY old \in Seq(ConsumptionRow), <5>1, SameState
        <4> QED
          BY ONLY <2>1, <4>0, <4>1, <4>2, <4>3
      <3>5. shipAlloc[b].state # "NONE"
        BY <3>1 DEF OnTheWay
      <3> QED
        BY <2>1, <3>1, <3>4, <3>5, BoxMovedOn
    <2>3. CASE b \notin Cargo(s)
      BY <1>5, <2>1, <2>3, BoxUntouched DEF Arrive, Untouched
    <2> QED
      BY <2>2, <2>3
  <1>6. PortArrival(s) \/ WarehouseArrival(s) \/ Clear(s) => BoxInv(b)'
    BY <1>5 DEF PortArrival, WarehouseArrival, Clear, OnTheWay
  <1> QED
    BY <1>1, <1>2, <1>3, <1>4, <1>6 DEF ShipmentStep

\* The custody invariant is inductive.
THEOREM CustodyInvariant == Spec => []CustodyInv
  <1>1. Init => CustodyInv
    <2> SUFFICES ASSUME Init PROVE CustodyInv
      OBVIOUS
    <2>1. TypeOK
      BY InitTyped
    <2>2. ASSUME NEW b \in Box
          PROVE  BoxInv(b)
      <3>1. ledger[b] = << >> /\ Active(b) = {}
        BY DEF Init, ConsumptionInit, Active
      <3>2. shipAlloc[b].state = "NONE" /\ \A c \in Consolidation : conAlloc[c][b].state = "NONE"
        BY DEF Init, ConsolidationInit, NoShipAllocation
      <3> QED
        BY <3>1, <3>2 DEF BoxInv, ConsolidationRow, ShipmentRow
    <2> QED
      BY <2>1, <2>2 DEF CustodyInv
  <1>2. CustodyInv /\ [Next]_vars => CustodyInv'
    <2> SUFFICES ASSUME CustodyInv, [Next]_vars PROVE CustodyInv'
      OBVIOUS
    <2>1. TypeOK /\ TypeOK'
      BY NextTyped DEF CustodyInv
    <2>2. ASSUME NEW b \in Box
          PROVE  BoxInv(b)'
      <3>1. BoxInv(b)
        BY DEF CustodyInv
      <3>2. CASE SiteStep /\ UNCHANGED shipmentVars
        BY <3>1, <3>2, BoxUntouched
           DEF SiteStep, UpdateSite, DeactivateSite, consumptionVars, shipmentVars, Untouched
      <3>3. CASE \E c \in Consolidation : ConsolidationStep(c) /\ UNCHANGED shipmentVars
        BY <2>1, <3>1, <3>3, ConsolidationStepKeeps
      <3>4. CASE \E s \in Shipment : ShipmentStep(s)
        BY <2>1, <3>1, <3>4, ShipmentStepKeeps
      <3>5. CASE UNCHANGED vars
        BY <3>1, <3>5, BoxUntouched
           DEF vars, consumptionVars, consolidationVars, shipmentVars, Untouched
      <3> QED
        BY <3>2, <3>3, <3>4, <3>5 DEF Next
    <2> QED
      BY <2>1, <2>2 DEF CustodyInv
  <1> QED
    BY <1>1, <1>2, PTL DEF Spec

\* A box is never held by two consumers at once, for any number of boxes,
\* consolidations and shipments and any length of the ledger.
THEOREM OneActiveConsumerHolds == Spec => []OneActiveConsumer
  <1>1. CustodyInv => OneActiveConsumer
    BY DEF CustodyInv, BoxInv, OneActiveConsumer
  <1> QED
    BY <1>1, CustodyInvariant, PTL

\* Allocations and ledger rows never disagree.
THEOREM AllocationHasRowHolds == Spec => []AllocationHasRow
  <1>1. CustodyInv => AllocationHasRow
    BY DEF CustodyInv, BoxInv, AllocationHasRow
  <1> QED
    BY <1>1, CustodyInvariant, PTL

\* No box is held for nobody.
THEOREM HolderHasAllocationHolds == Spec => []HolderHasAllocation
  <1>1. CustodyInv => HolderHasAllocation
    BY DEF CustodyInv, BoxInv, HolderHasAllocation
  <1> QED
    BY <1>1, CustodyInvariant, PTL

-----------------------------------------------------------------------------
(* Shipped quantities. *)

ShippedWith(b) == shipped[b] = IF shipAlloc[b].state \in OnTheWay THEN 1 ELSE 0

\* A step of a consolidation ships nothing: the row that a receipt commits
\* belongs to the consolidation, never to a shipment.
LEMMA ConsolidationStepShipsNothing ==
    ASSUME CustodyInv, NEW c \in Consolidation, ConsolidationStep(c)
    PROVE  shipped' = shipped
  <1>1. ASSUME NEW b \in Box, ReceiveBox(c, b)
        PROVE  shipped' = shipped
    <2>1. conAlloc[c][b].state # "NONE" /\ AllocatedRow(c)[b] = conAlloc[c][b].row
      BY <1>1 DEF ReceiveBox, Waiting, AllocatedRow
    <2>2. ledger[b][AllocatedRow(c)[b]].consumer \notin Shipment
      BY <2>1, ConsumptionAssumption DEF CustodyInv, BoxInv, ConsolidationRow
    <2>3. \A a \in Box : shipped'[a] = shipped[a]
      BY <1>1, <2>2 DEF ReceiveBox, Commit, Ships
    <2>4. shipped \in [Box -> Nat] /\ shipped' \in [Box -> Nat]
      BY <1>1, <2>2 DEF ReceiveBox, Commit, Ships, CustodyInv, TypeOK, ConsumptionTypeOK
    <2> QED
      BY <2>3, <2>4
  <1> QED
    BY <1>1 DEF ConsolidationStep, CreateConsolidation, UpdateConsolidation, AllocateBoxes, Reserve,
                ReleaseConsolidation, RemoveBox, Release, SubmitHandover, MarkException,
                ControlledRelease, Ready, CancelConsolidation, consumptionVars

\* A step of a shipment ships what it dispatches, once.
LEMMA ShipmentStepShips ==
    ASSUME CustodyInv, NEW s \in Shipment, ShipmentStep(s), NEW b \in Box, ShippedWith(b)
    PROVE  ShippedWith(b)'
  <1>0. shipped[b] \in Nat /\ shipAlloc[b] \in ShipAllocation \cup {NoShipAllocation}
    BY DEF CustodyInv, TypeOK, ConsumptionTypeOK
  <1>1. ASSUME NEW r \in Region, NEW o \in Site \cup {None},
               CreateShipment(s, r, o) \/ UpdateShipment(s, r, o)
        PROVE  ShippedWith(b)'
    BY <1>1 DEF CreateShipment, UpdateShipment, consumptionVars, ShippedWith
  <1>2. ASSUME DeclareCustoms(s) \/ CancelShipment(s)
        PROVE  ShippedWith(b)'
    BY <1>2 DEF DeclareCustoms, CancelShipment, consumptionVars, ShippedWith
  <1>3. ASSUME NEW c \in Consolidation, NEW B \in SUBSET Box, LoadBoxes(s, c, B)
        PROVE  ShippedWith(b)'
    BY <1>3 DEF LoadBoxes, TransferBoxes, Transfer, ShippedWith, OnTheWay
  <1>4. ASSUME NEW B \in SUBSET Box, Dispatch(s, B)
        PROVE  ShippedWith(b)'
    <2>1. CASE b \in B
      <3>1. shipAlloc[b].state = "TRANSFERRED" /\ shipAlloc[b].shipment = s
        BY <1>4, <2>1 DEF Dispatch
      <3>2. ledger[b][shipAlloc[b].row].consumer = s
        BY <3>1 DEF CustodyInv, BoxInv, ShipmentRow
      <3>3. shipped'[b] = shipped[b] + 1
        BY <1>4, <2>1, <3>2 DEF Dispatch, Commit, Ships
      <3>4. shipAlloc'[b].state = "DISPATCHED"
        BY <1>0, <1>4, <2>1, <3>1 DEF Dispatch, ShipAllocation, NoShipAllocation
      <3> QED
        BY <3>1, <3>3, <3>4 DEF ShippedWith, OnTheWay
    <2>2. CASE b \notin B
      BY <1>4, <2>2 DEF Dispatch, Commit, ShippedWith
    <2> QED
      BY <2>1, <2>2
  <1>5. ASSUME NEW before, NEW after, NEW fromState \in OnTheWay, NEW toState \in OnTheWay,
               Arrive(s, before, after, fromState, toState)
        PROVE  ShippedWith(b)'
    <2>1. shipped' = shipped
      BY <1>5 DEF Arrive, consumptionVars
    <2>2. CASE b \in Cargo(s)
      <3>1. shipAlloc[b].state = fromState
        BY <1>5, <2>2 DEF Arrive, AllAt
      <3>2. shipAlloc'[b].state = toState
        BY <1>0, <1>5, <2>2, <3>1 DEF Arrive, ShipAllocation, NoShipAllocation, OnTheWay
      <3> QED
        BY <2>1, <3>1, <3>2 DEF ShippedWith
    <2>3. CASE b \notin Cargo(s)
      BY <1>5, <2>1, <2>3 DEF Arrive, ShippedWith
    <2> QED
      BY <2>2, <2>3
  <1>6. PortArrival(s) \/ WarehouseArrival(s) \/ Clear(s) => ShippedWith(b)'
    BY <1>5 DEF PortArrival, WarehouseArrival, Clear, OnTheWay
  <1> QED
    BY <1>1, <1>2, <1>3, <1>4, <1>6 DEF ShipmentStep

\* The items of a box are counted as shipped when it is dispatched and never
\* again, whatever receipts, transfers and arrivals come before and after.
THEOREM ShippedOnceHolds == Spec => []ShippedOnce
  <1>1. Init => ShippedOnce
    BY DEF Init, ConsumptionInit, NoShipAllocation, ShippedOnce, OnTheWay
  <1>2. CustodyInv /\ ShippedOnce /\ [Next]_vars => ShippedOnce'
    <2> SUFFICES ASSUME CustodyInv, ShippedOnce, [Next]_vars, NEW b \in Box
                 PROVE  ShippedWith(b)'
      BY DEF ShippedOnce, ShippedWith
    <2>0. ShippedWith(b)
      BY DEF ShippedOnce, ShippedWith
    <2>1. CASE SiteStep /\ UNCHANGED shipmentVars
      BY <2>0, <2>1 DEF SiteStep, UpdateSite, DeactivateSite, consumptionVars, shipmentVars, ShippedWith
    <2>2. CASE \E c \in Consolidation : ConsolidationStep(c) /\ UNCHANGED shipmentVars
      BY <2>0, <2>2, ConsolidationStepShipsNothing DEF shipmentVars, ShippedWith
    <2>3. CASE \E s \in Shipment : ShipmentStep(s)
      BY <2>0, <2>3, ShipmentStepShips
    <2>4. CASE UNCHANGED vars
      BY <2>0, <2>4 DEF vars, consumptionVars, shipmentVars, ShippedWith
    <2> QED
      BY <2>1, <2>2, <2>3, <2>4 DEF Next
  <1> QED
    BY <1>1, <1>2, CustodyInvariant, PTL DEF Spec

=============================================================================
