------------------------- MODULE LooseCargoShipment -------------------------
(***************************************************************************)
(* Loose-cargo shipments (backend/apps/shipping/services.py), together     *)
(* with the consolidations they take boxes from and the consumption ledger *)
(* both write: the system that moves a packed box from its supplier to the *)
(* cleared warehouse.                                                      *)
(*                                                                         *)
(* mark_shipment_exception changes nothing but the version and is left     *)
(* out.                                                                    *)
(***************************************************************************)
EXTENDS LooseCargoConsolidation

VARIABLES
    shipStatus,     \* LooseCargoShipment.status; "NONE" before it exists
    shipRegion,     \* LooseCargoShipment.region_code
    shipOrigin,     \* LooseCargoShipment.origin_site_id_snapshot
    shipAlloc       \* shipAlloc[b]: ShipmentBoxAllocation, one at most per box

shipmentVars == <<shipStatus, shipRegion, shipOrigin, shipAlloc>>
vars == <<consumptionVars, consolidationVars, shipmentVars>>

ShipStatus == {"NONE", "DRAFT", "LOADING", "CUSTOMS_DECLARED", "DISPATCHED",
               "PORT_ARRIVED", "WAREHOUSE_ARRIVED", "WAREHOUSE_CLEARED", "CANCELLED"}
OnTheWay == {"DISPATCHED", "ARRIVED_PORT", "ARRIVED_WAREHOUSE", "CLEARED"}
NoShipAllocation == [state |-> "NONE", shipment |-> None, consolidation |-> None, row |-> 0]
ShipAllocation ==
    [state : OnTheWay \cup {"TRANSFERRED"}, shipment : Shipment, consolidation : Consolidation,
     row : Nat]

TypeOK ==
    /\ ConsumptionTypeOK
    /\ ConsolidationTypeOK
    /\ shipStatus \in [Shipment -> ShipStatus]
    /\ shipRegion \in [Shipment -> Region \cup {None}]
    /\ shipOrigin \in [Shipment -> Site \cup {None}]
    /\ shipAlloc \in [Box -> ShipAllocation \cup {NoShipAllocation}]
    /\ \A s \in Shipment : shipStatus[s] # "NONE" => shipRegion[s] \in Region

Init ==
    /\ ConsumptionInit
    /\ ConsolidationInit
    /\ shipStatus = [s \in Shipment |-> "NONE"]
    /\ shipRegion = [s \in Shipment |-> None]
    /\ shipOrigin = [s \in Shipment |-> None]
    /\ shipAlloc = [b \in Box |-> NoShipAllocation]

\* The boxes of shipment s.
Cargo(s) == {b \in Box : shipAlloc[b].shipment = s}

-----------------------------------------------------------------------------

CreateShipment(s, r, o) ==
    /\ shipStatus[s] = "NONE"
    /\ shipStatus' = [shipStatus EXCEPT ![s] = "DRAFT"]
    /\ shipRegion' = [shipRegion EXCEPT ![s] = r]
    /\ shipOrigin' = [shipOrigin EXCEPT ![s] = o]
    /\ UNCHANGED <<shipAlloc, consumptionVars, consolidationVars>>

UpdateShipment(s, r, o) ==
    /\ shipStatus[s] = "DRAFT"
    /\ shipRegion' = [shipRegion EXCEPT ![s] = r]
    /\ shipOrigin' = [shipOrigin EXCEPT ![s] = o]
    /\ UNCHANGED <<shipStatus, shipAlloc, consumptionVars, consolidationVars>>

\* Wrong: the regions are not compared.
RouteFits_AnyRegion(s, c) == shipOrigin[s] \in {None, conSite[c]}

RouteFits(s, c) ==
    /\ shipOrigin[s] \in {None, conSite[c]}
    /\ conRegion[c] = shipRegion[s]

\* allocate_shipment_boxes: all the boxes of the call or none.
LoadBoxes(s, c, B) ==
    /\ shipStatus[s] \in {"DRAFT", "LOADING"}
    /\ B # {}
    /\ RouteFits(s, c)
    /\ \A b \in B : shipAlloc[b].state = "NONE"
    /\ TransferBoxes(c, B, s)
    /\ shipAlloc' = [b \in Box |->
          IF b \in B THEN [state |-> "TRANSFERRED", shipment |-> s, consolidation |-> c,
                           row |-> Len(ledger[b]) + 1]
          ELSE shipAlloc[b]]
    /\ shipStatus' = [shipStatus EXCEPT ![s] = "LOADING"]
    /\ UNCHANGED <<shipRegion, shipOrigin>>

DeclareCustoms(s) ==
    /\ shipStatus[s] = "LOADING"
    /\ Cargo(s) # {}
    /\ shipStatus' = [shipStatus EXCEPT ![s] = "CUSTOMS_DECLARED"]
    /\ UNCHANGED <<shipRegion, shipOrigin, shipAlloc, consumptionVars, consolidationVars>>

\* A selection of the shipment's boxes, or all that are left.
Dispatch(s, B) ==
    /\ shipStatus[s] \in {"CUSTOMS_DECLARED", "DISPATCHED"}
    /\ B # {}
    /\ \A b \in B : shipAlloc[b].shipment = s /\ shipAlloc[b].state = "TRANSFERRED"
    /\ Commit(B, [b \in Box |-> shipAlloc[b].row])
    /\ shipAlloc' = [b \in Box |->
          IF b \in B THEN [shipAlloc[b] EXCEPT !.state = "DISPATCHED"] ELSE shipAlloc[b]]
    /\ shipStatus' = [shipStatus EXCEPT ![s] = "DISPATCHED"]
    /\ UNCHANGED <<shipRegion, shipOrigin, consolidationVars>>

\* Wrong: boxes left behind do not hold the shipment back.
AllAt_Some(s, st) == \E b \in Cargo(s) : shipAlloc[b].state = st

AllAt(s, st) == Cargo(s) # {} /\ \A b \in Cargo(s) : shipAlloc[b].state = st

\* _arrival_transition: every box must have reached the milestone before.
Arrive(s, before, after, fromState, toState) ==
    /\ shipStatus[s] = before
    /\ AllAt(s, fromState)
    /\ shipAlloc' = [b \in Box |->
          IF b \in Cargo(s) THEN [shipAlloc[b] EXCEPT !.state = toState] ELSE shipAlloc[b]]
    /\ shipStatus' = [shipStatus EXCEPT ![s] = after]
    /\ UNCHANGED <<shipRegion, shipOrigin, consumptionVars, consolidationVars>>

PortArrival(s) == Arrive(s, "DISPATCHED", "PORT_ARRIVED", "DISPATCHED", "ARRIVED_PORT")

WarehouseArrival(s) ==
    Arrive(s, "PORT_ARRIVED", "WAREHOUSE_ARRIVED", "ARRIVED_PORT", "ARRIVED_WAREHOUSE")

Clear(s) == Arrive(s, "WAREHOUSE_ARRIVED", "WAREHOUSE_CLEARED", "ARRIVED_WAREHOUSE", "CLEARED")

\* Wrong: a shipment that is being loaded can be cancelled, its boxes and all.
CancelShipment_Loading(s) ==
    /\ shipStatus[s] \in {"DRAFT", "LOADING"}
    /\ shipStatus' = [shipStatus EXCEPT ![s] = "CANCELLED"]
    /\ UNCHANGED <<shipRegion, shipOrigin, shipAlloc, consumptionVars, consolidationVars>>

CancelShipment(s) ==
    /\ shipStatus[s] = "DRAFT"
    /\ Cargo(s) = {}
    /\ shipStatus' = [shipStatus EXCEPT ![s] = "CANCELLED"]
    /\ UNCHANGED <<shipRegion, shipOrigin, shipAlloc, consumptionVars, consolidationVars>>

ShipmentStep(s) ==
    \/ \E r \in Region, o \in Site \cup {None} : CreateShipment(s, r, o) \/ UpdateShipment(s, r, o)
    \/ \E c \in Consolidation, B \in SUBSET Box : LoadBoxes(s, c, B)
    \/ DeclareCustoms(s)
    \/ \E B \in SUBSET Box : Dispatch(s, B)
    \/ PortArrival(s)
    \/ WarehouseArrival(s)
    \/ Clear(s)
    \/ CancelShipment(s)

Next ==
    \/ SiteStep /\ UNCHANGED shipmentVars
    \/ \E c \in Consolidation : ConsolidationStep(c) /\ UNCHANGED shipmentVars
    \/ \E s \in Shipment : ShipmentStep(s)

Spec == Init /\ [][Next]_vars

-----------------------------------------------------------------------------
(* Properties. *)

\* A box is never held by two consumers, whichever consolidations and shipments
\* compete for it (the rule behind the unique key on (box, active_guard)).
OneActiveConsumer ==
    \A b \in Box : \A i, j \in Active(b) : i = j

\* The state of the ledger row that a consolidation allocation points to.
RowStateOf(st) ==
    IF st \in Waiting THEN "RESERVED" ELSE IF st = "RECEIVED" THEN "COMMITTED" ELSE "RELEASED"

ConsolidationRow(c, b) ==
    conAlloc[c][b].state # "NONE" =>
        /\ conAlloc[c][b].row \in DOMAIN ledger[b]
        /\ ledger[b][conAlloc[c][b].row].consumer = c
        /\ ledger[b][conAlloc[c][b].row].state = RowStateOf(conAlloc[c][b].state)

ShipmentRow(b) ==
    shipAlloc[b].state # "NONE" =>
        /\ shipAlloc[b].row \in DOMAIN ledger[b]
        /\ ledger[b][shipAlloc[b].row].consumer = shipAlloc[b].shipment
        /\ ledger[b][shipAlloc[b].row].state =
              IF shipAlloc[b].state = "TRANSFERRED" THEN "RESERVED" ELSE "COMMITTED"

\* Every allocation points to a ledger row of its own consumer whose state says
\* the same: waiting boxes are reserved, received and dispatched ones committed,
\* released and transferred ones released.
AllocationHasRow ==
    /\ \A c \in Consolidation, b \in Box : ConsolidationRow(c, b)
    /\ \A b \in Box : ShipmentRow(b)

\* Row i of box b is the one that its consumer's live allocation points to.
HeldFor(b, i) ==
    LET k == ledger[b][i].consumer
    IN  /\ k \in Consolidation =>
              conAlloc[k][b].row = i /\ conAlloc[k][b].state \in Waiting \cup {"RECEIVED"}
        /\ k \in Shipment => shipAlloc[b].row = i /\ shipAlloc[b].shipment = k

\* No box is held for nobody: an active ledger row belongs to a live allocation,
\* so somebody can still release, transfer or commit it.
HolderHasAllocation ==
    \A b \in Box : \A i \in Active(b) : HeldFor(b, i)

\* The items of a box are added to the shipped quantities exactly when the box
\* is dispatched: not at the receipt, not at the transfer, and once.
ShippedOnce ==
    \A b \in Box : shipped[b] = IF shipAlloc[b].state \in OnTheWay THEN 1 ELSE 0

\* A shipment is never ahead of its boxes: it has none before it is loading,
\* only whole milestones after the port, and a cancelled one has none.
ShipmentMilestones ==
    \A s \in Shipment :
        LET at == {shipAlloc[b].state : b \in Cargo(s)}
        IN  CASE shipStatus[s] \in {"NONE", "DRAFT", "CANCELLED"}     -> at = {}
              [] shipStatus[s] \in {"LOADING", "CUSTOMS_DECLARED"}    -> at = {"TRANSFERRED"}
              [] shipStatus[s] = "DISPATCHED"        -> /\ "DISPATCHED" \in at
                                                        /\ at \subseteq {"TRANSFERRED", "DISPATCHED"}
              [] shipStatus[s] = "PORT_ARRIVED"      -> at = {"ARRIVED_PORT"}
              [] shipStatus[s] = "WAREHOUSE_ARRIVED" -> at = {"ARRIVED_WAREHOUSE"}
              [] shipStatus[s] = "WAREHOUSE_CLEARED" -> at = {"CLEARED"}

\* The status of a consolidation says where its boxes are.
ConsolidationStages ==
    \A c \in Consolidation :
        LET at == {conAlloc[c][b].state : b \in ActiveBoxes(c)}
        IN  CASE conStatus[c] \in {"NONE", "CANCELLED"} -> at = {}
              [] conStatus[c] = "DRAFT"                 -> at \subseteq {"ALLOCATED"}
              [] conStatus[c] = "RELEASED"              -> at = {"ALLOCATED"}
              [] conStatus[c] = "RECEIVING"             -> at \subseteq Waiting \cup {"RECEIVED"}
              [] conStatus[c] = "READY"                 -> /\ "RECEIVED" \in at
                                                           /\ at \subseteq {"RECEIVED", "TRANSFERRED"}
              [] conStatus[c] = "TRANSFERRED"           -> at = {"TRANSFERRED"}

\* A loaded box came from a consolidation of the shipment's region and origin,
\* although sites, drafts and shipments are re-routed while boxes move.
RouteAgreement ==
    \A b \in Box : shipAlloc[b].state # "NONE" =>
        LET s == shipAlloc[b].shipment
            c == shipAlloc[b].consolidation
        IN  /\ conAlloc[c][b].state = "TRANSFERRED"
            /\ conRegion[c] = shipRegion[s]
            /\ shipOrigin[s] \in {None, conSite[c]}

\* From its release on a consolidation gets no box, and from the moment it is
\* ready it keeps the boxes it has.
BoxesFrozenAfterRelease ==
    [][\A c \in Consolidation :
          /\ conStatus[c] \notin {"NONE", "DRAFT"} => ActiveBoxes(c)' \subseteq ActiveBoxes(c)
          /\ conStatus[c] \in {"READY", "TRANSFERRED"} => ActiveBoxes(c)' = ActiveBoxes(c)]_vars

-----------------------------------------------------------------------------
(* The abstract custody of a box, read off the allocations. *)

\* The consolidations whose live allocation holds box b.
Claims(b) == {c \in Consolidation : conAlloc[c][b].state \in Waiting \cup {"RECEIVED"}}

CustodyPlace(b) ==
    CASE shipAlloc[b].state = "TRANSFERRED"       -> "LOADED"
      [] shipAlloc[b].state = "DISPATCHED"        -> "SHIPPED"
      [] shipAlloc[b].state = "ARRIVED_PORT"      -> "AT_PORT"
      [] shipAlloc[b].state = "ARRIVED_WAREHOUSE" -> "AT_WAREHOUSE"
      [] shipAlloc[b].state = "CLEARED"           -> "CLEARED"
      [] OTHER -> IF Claims(b) = {} THEN "SUPPLIER"
                  ELSE IF \E c \in Claims(b) : conAlloc[c][b].state = "RECEIVED" THEN "AT_SITE"
                  ELSE "EXPECTED"

CustodyHolder(b) ==
    IF shipAlloc[b].state # "NONE" THEN shipAlloc[b].shipment
    ELSE IF Claims(b) = {} THEN None ELSE CHOOSE c \in Claims(b) : TRUE

Custody == INSTANCE BoxCustody WITH
    place <- [b \in Box |-> CustodyPlace(b)],
    holder <- [b \in Box |-> CustodyHolder(b)]

\* The three services together keep the promise of BoxCustody: every transaction
\* moves boxes one place along their way, or nothing a customer can see.
ImplementsCustody == Custody!Spec

=============================================================================
