----------------------- MODULE LooseCargoConsolidation ----------------------
(***************************************************************************)
(* Consolidation sites and loose-cargo consolidations                      *)
(* (backend/apps/consolidation/services.py).                               *)
(*                                                                         *)
(* A service call is one transaction that locks the consolidation row      *)
(* first, so it is one action.  Times are left out: a site inside its      *)
(* effective interval at one call may be outside at the next, so an action *)
(* that asks for an effective site may always be refused, which a step not *)
(* taken already says.  Handover evidence is left out in the same way.     *)
(***************************************************************************)
EXTENDS BoxConsumption

CONSTANTS
    Site,       \* consolidation sites (created before anything is planned)
    Region,     \* region codes
    None        \* no site, no region, no consolidation, no shipment

ASSUME ConsolidationAssumption == None \notin Site \cup Region \cup Consolidation \cup Shipment

VARIABLES
    siteActive,     \* ConsolidationSite.is_active
    siteRegion,     \* ConsolidationSite.region_code
    conStatus,      \* LooseCargoConsolidation.status; "NONE" before it exists
    conSite,        \* LooseCargoConsolidation.site
    conRegion,      \* LooseCargoConsolidation.region_code
    conAlloc        \* conAlloc[c][b]: ConsolidationBoxAllocation; "NONE" is no row

planVars == <<siteActive, siteRegion, conSite, conRegion>>
consolidationVars == <<siteActive, siteRegion, conStatus, conSite, conRegion, conAlloc>>

ConStatus == {"NONE", "DRAFT", "RELEASED", "RECEIVING", "READY", "TRANSFERRED", "CANCELLED"}
Waiting == {"ALLOCATED", "HANDOVER_SUBMITTED", "EXCEPTION"}
ConAllocState == Waiting \cup {"NONE", "RECEIVED", "TRANSFERRED", "RELEASED"}
ConAllocation == [state : ConAllocState, row : Nat]

ConsolidationTypeOK ==
    /\ siteActive \in [Site -> BOOLEAN]
    /\ siteRegion \in [Site -> Region]
    /\ conStatus \in [Consolidation -> ConStatus]
    /\ conSite \in [Consolidation -> Site \cup {None}]
    /\ conRegion \in [Consolidation -> Region \cup {None}]
    /\ conAlloc \in [Consolidation -> [Box -> ConAllocation]]
    /\ \A c \in Consolidation : conStatus[c] # "NONE" => conSite[c] \in Site /\ conRegion[c] \in Region

ConsolidationInit ==
    /\ siteActive = [s \in Site |-> TRUE]
    /\ siteRegion \in [Site -> Region]
    /\ conStatus = [c \in Consolidation |-> "NONE"]
    /\ conSite = [c \in Consolidation |-> None]
    /\ conRegion = [c \in Consolidation |-> None]
    /\ conAlloc = [c \in Consolidation |-> [b \in Box |-> [state |-> "NONE", row |-> 0]]]

\* LooseCargoConsolidation.active_allocations
ActiveBoxes(c) == {b \in Box : conAlloc[c][b].state \notin {"NONE", "RELEASED"}}

AllocatedRow(c) == [b \in Box |-> conAlloc[c][b].row]

\* conAlloc once the boxes B of consolidation c are in state st.
Marked(c, B, st) ==
    [conAlloc EXCEPT ![c] = [b \in Box |-> IF b \in B THEN [@[b] EXCEPT !.state = st] ELSE @[b]]]

\* _require_site
SiteAccepts(s, r) == siteActive[s] /\ siteRegion[s] = r

-----------------------------------------------------------------------------
(* Sites. *)

UpdateSite(s, r) ==
    /\ siteRegion' = [siteRegion EXCEPT ![s] = r]
    /\ UNCHANGED <<siteActive, conStatus, conSite, conRegion, conAlloc, consumptionVars>>

DeactivateSite(s) ==
    /\ siteActive' = [siteActive EXCEPT ![s] = FALSE]
    /\ UNCHANGED <<siteRegion, conStatus, conSite, conRegion, conAlloc, consumptionVars>>

-----------------------------------------------------------------------------
(* A draft consolidation. *)

\* Wrong: the region is checked and not recorded.
CreateConsolidation_NoRegion(c, s, r) ==
    /\ conStatus[c] = "NONE"
    /\ SiteAccepts(s, r)
    /\ conStatus' = [conStatus EXCEPT ![c] = "DRAFT"]
    /\ conSite' = [conSite EXCEPT ![c] = s]
    /\ UNCHANGED <<siteActive, siteRegion, conRegion, conAlloc, consumptionVars>>

CreateConsolidation(c, s, r) ==
    /\ conStatus[c] = "NONE"
    /\ SiteAccepts(s, r)
    /\ conStatus' = [conStatus EXCEPT ![c] = "DRAFT"]
    /\ conSite' = [conSite EXCEPT ![c] = s]
    /\ conRegion' = [conRegion EXCEPT ![c] = r]
    /\ UNCHANGED <<siteActive, siteRegion, conAlloc, consumptionVars>>

UpdateConsolidation(c, s, r) ==
    /\ conStatus[c] = "DRAFT"
    /\ SiteAccepts(s, r)
    /\ conSite' = [conSite EXCEPT ![c] = s]
    /\ conRegion' = [conRegion EXCEPT ![c] = r]
    /\ UNCHANGED <<siteActive, siteRegion, conStatus, conAlloc, consumptionVars>>

\* Wrong: boxes are still added after the release.
TakesBoxes_Released(c) == conStatus[c] \in {"DRAFT", "RELEASED"}

TakesBoxes(c) == conStatus[c] = "DRAFT"

\* A box released from this consolidation before reuses its allocation row.
AllocateBoxes(c, B) ==
    /\ TakesBoxes(c)
    /\ B # {}
    /\ \A b \in B : conAlloc[c][b].state \in {"NONE", "RELEASED"}
    /\ Reserve(B, c)
    /\ conAlloc' = [conAlloc EXCEPT ![c] = [b \in Box |->
          IF b \in B THEN [state |-> "ALLOCATED", row |-> Len(ledger[b]) + 1] ELSE @[b]]]
    /\ UNCHANGED <<planVars, conStatus>>

RemoveBox(c, b) ==
    /\ conStatus[c] = "DRAFT"
    /\ conAlloc[c][b].state = "ALLOCATED"
    /\ Release({b}, AllocatedRow(c))
    /\ conAlloc' = Marked(c, {b}, "RELEASED")
    /\ UNCHANGED <<planVars, conStatus>>

ReleaseConsolidation(c) ==
    /\ conStatus[c] = "DRAFT"
    /\ SiteAccepts(conSite[c], conRegion[c])
    /\ ActiveBoxes(c) # {}
    /\ \A b \in ActiveBoxes(c) : conAlloc[c][b].state = "ALLOCATED"
    /\ conStatus' = [conStatus EXCEPT ![c] = "RELEASED"]
    /\ UNCHANGED <<planVars, conAlloc, consumptionVars>>

-----------------------------------------------------------------------------
(* A released consolidation: the first fact recorded of a box starts the      *)
(* receiving.                                                               *)

Collecting(c) == conStatus[c] \in {"RELEASED", "RECEIVING"}

StartReceiving(c) ==
    /\ Collecting(c)
    /\ conStatus' = [conStatus EXCEPT ![c] = "RECEIVING"]
    /\ UNCHANGED planVars

SubmitHandover(c, b) ==
    /\ StartReceiving(c)
    /\ conAlloc[c][b].state = "ALLOCATED"
    /\ conAlloc' = Marked(c, {b}, "HANDOVER_SUBMITTED")
    /\ UNCHANGED consumptionVars

ReceiveBox(c, b) ==
    /\ StartReceiving(c)
    /\ conAlloc[c][b].state \in Waiting
    /\ Commit({b}, AllocatedRow(c))
    /\ conAlloc' = Marked(c, {b}, "RECEIVED")

MarkException(c, b) ==
    /\ StartReceiving(c)
    /\ conAlloc[c][b].state \in {"ALLOCATED", "HANDOVER_SUBMITTED"}
    /\ conAlloc' = Marked(c, {b}, "EXCEPTION")
    /\ UNCHANGED consumptionVars

\* Wrong: the exception is closed and the ledger row stays reserved.
ControlledRelease_KeepsRow(c, b) ==
    /\ conAlloc[c][b].state = "EXCEPTION"
    /\ conAlloc' = Marked(c, {b}, "RELEASED")
    /\ UNCHANGED <<planVars, conStatus, consumptionVars>>

\* The code looks at the allocation only, not at the consolidation's status.
ControlledRelease(c, b) ==
    /\ conAlloc[c][b].state = "EXCEPTION"
    /\ Release({b}, AllocatedRow(c))
    /\ conAlloc' = Marked(c, {b}, "RELEASED")
    /\ UNCHANGED <<planVars, conStatus>>

\* Wrong: an open exception does not hold the consolidation back.
IsReady_Exceptions(c) ==
    \A b \in ActiveBoxes(c) : conAlloc[c][b].state \in {"RECEIVED", "EXCEPTION"}

IsReady(c) == \A b \in ActiveBoxes(c) : conAlloc[c][b].state = "RECEIVED"

Ready(c) ==
    /\ Collecting(c)
    /\ ActiveBoxes(c) # {}
    /\ IsReady(c)
    /\ conStatus' = [conStatus EXCEPT ![c] = "READY"]
    /\ UNCHANGED <<planVars, conAlloc, consumptionVars>>

\* Every allocation row counts, the released ones too: a consolidation a box
\* was removed from cannot be cancelled.
CancelConsolidation(c) ==
    LET rows == {b \in Box : conAlloc[c][b].state # "NONE"}
    IN  /\ conStatus[c] \in {"DRAFT", "RELEASED"}
        /\ \A b \in rows : conAlloc[c][b].state = "ALLOCATED"
        /\ Release(rows, AllocatedRow(c))
        /\ conAlloc' = Marked(c, rows, "RELEASED")
        /\ conStatus' = [conStatus EXCEPT ![c] = "CANCELLED"]
        /\ UNCHANGED planVars

\* transfer_consolidation_allocation_to_shipment for the boxes B, called by the
\* shipment that takes them.
TransferBoxes(c, B, shipment) ==
    LET left == ActiveBoxes(c) \ {b \in Box : conAlloc[c][b].state = "TRANSFERRED"}
    IN  /\ conStatus[c] = "READY"
        /\ \A b \in B : /\ conAlloc[c][b].state = "RECEIVED"
                        /\ ledger[b][conAlloc[c][b].row].state = "COMMITTED"
        /\ Transfer(B, AllocatedRow(c), shipment)
        /\ conAlloc' = Marked(c, B, "TRANSFERRED")
        /\ conStatus' = [conStatus EXCEPT ![c] = IF left \subseteq B THEN "TRANSFERRED" ELSE @]
        /\ UNCHANGED planVars

ConsolidationStep(c) ==
    \/ \E s \in Site, r \in Region : CreateConsolidation(c, s, r) \/ UpdateConsolidation(c, s, r)
    \/ \E B \in SUBSET Box : AllocateBoxes(c, B)
    \/ ReleaseConsolidation(c)
    \/ \E b \in Box : \/ RemoveBox(c, b)
                      \/ SubmitHandover(c, b)
                      \/ ReceiveBox(c, b)
                      \/ MarkException(c, b)
                      \/ ControlledRelease(c, b)
    \/ Ready(c)
    \/ CancelConsolidation(c)

SiteStep == \E s \in Site : DeactivateSite(s) \/ \E r \in Region : UpdateSite(s, r)

=============================================================================
